---- MODULE Spec2Model ----
(***************************************************************************)
(* Archival and pruning subsystem of the node:                             *)
(*   - the Pruner (crates/prune/prune/src/pruner.rs),                      *)
(*   - the static-file service (crates/engine/tree/src/static_files.rs).   *)
(* Spec is the pruner's state machine, SpecSFS the static-file service's.  *)
(***************************************************************************)
EXTENDS Integers, Sequences, FiniteSets, TLC

\* ------------------------------------------------------------------ bounds
MaxTip == 3            \* tips and consumer heights range over 0..MaxTip
MaxInterval == 2       \* min_block_interval ranges over 0..MaxInterval
MaxDeleteLimit == 2    \* delete_limit ranges over 0..MaxDeleteLimit
MaxKept == 1           \* recent_sidecars_kept_blocks ranges over 0..MaxKept
MaxBlock == 2          \* the chain has blocks 0..MaxBlock
MaxTxs == 2            \* a block has 0..MaxTxs transactions
MaxQueue == 2          \* actions waiting in the service's channel
MaxActions == 3        \* actions sent to the service in one behaviour
MaxBatch == 2          \* executed blocks in one WriteExecutionData
MaxFilter == 1         \* addresses in receipts_log_filter
MaxHandles == 2        \* clones of the service handle alive at once
MaxSweepTip == 5       \* tips of the ancient-sidecar sweep range over 0..MaxSweepTip
MaxDeepTip == 7        \* tips of the sweeps over a disk of four partitions

\* blocks per static-file partition (BLOCKS_PER_STATIC_FILE, scaled down)
BlocksPerFile == 2

Tips == 0..MaxTip
SweepTips == 0..MaxSweepTip
DeepTips == 0..MaxDeepTip

\* ------------------------------------------------------------ Option<T>
None == [some |-> FALSE, val |-> 0]
Some(v) == [some |-> TRUE, val |-> v]
unwrap_or_default(o) == IF o.some THEN o.val ELSE 0

\* u64::saturating_sub
saturating_sub(a, b) == IF a >= b THEN a - b ELSE 0

Min(a, b) == IF a <= b THEN a ELSE b

SetMax(S) == CHOOSE x \in S : \A y \in S : y <= x
SetMin(S) == CHOOSE x \in S : \A y \in S : x <= y

\* F applied to the value of v, v being evaluated once
With(v, F(_)) == CHOOSE r \in {F(x) : x \in {v}} : TRUE

\* the n smallest elements of a finite set of numbers
Lowest(S, n) == {x \in S : Cardinality({y \in S : y < x}) < n}

\* --------------------------------------------------------------- state
VARIABLES
    \* Pruner fields
    min_block_interval,
    previous_tip_block_number,
    delete_limit,
    recent_sidecars_kept_blocks,
    finished_exex_height,
    oldest_sidecars_height,
    \* the database behind the read-write provider
    checkpoints,       \* prune checkpoint per PruneSegment
    table,             \* per PruneSegment, the blocks whose entries are still stored
    \* the static-file directory: the files of the Sidecars partitions
    files,
    \* the most recent operation, its inputs and what it returned
    last,
    \* the static-file service
    incoming,            \* Receiver<StaticFileAction>: the actions not yet received
    static_files,        \* per segment, what committed static files hold
    writers,             \* per segment, what the open writer holds
    service,             \* the service thread
    database_handle,     \* the DatabaseActions sent so far
    database,            \* the stage checkpoints the DB service keeps
    \* the database and the engine around the service
    block_body_indices,  \* per block, its number of transactions
    canonical,           \* the number of the next block to log
    executed,            \* the number of the next block to execute
    sent,                \* the number of actions sent so far
    \* the segment lengths when the current action was received, and the
    \* last two completed actions with theirs
    lengths_before,
    completed,
    \* every action sent so far, in arrival order, and how many of them the
    \* service has received
    arrived,
    received,
    \* per action sent so far, where the oneshot sender of its reply is
    replies,
    \* the number of StaticFileServiceHandle clones alive
    handles,
    \* the PrunerBuilder, and the segments of the pruners it has built
    builder,
    built

sfs_vars == <<incoming, static_files, writers, service, database_handle, database,
              block_body_indices, canonical, executed, sent, lengths_before, completed,
              arrived, received, replies, handles>>

pruner_vars == <<min_block_interval, previous_tip_block_number, delete_limit,
                 recent_sidecars_kept_blocks, finished_exex_height,
                 oldest_sidecars_height, checkpoints, table, files>>

builder_vars == <<builder, built>>

vars == <<pruner_vars, last, sfs_vars, builder_vars>>

\* ------------------------------------------------- FinishedExExHeight
NoExExs == [tag |-> "NoExExs", h |-> 0]
NotReady == [tag |-> "NotReady", h |-> 0]
Height(h) == [tag |-> "Height", h |-> h]
FinishedExExHeights == {NoExExs, NotReady} \cup {Height(h) : h \in Tips}

\* ------------------------------------------------------------ PruneMode
Full == [kind |-> "Full", n |-> 0]
Distance(n) == [kind |-> "Distance", n |-> n]
Before(n) == [kind |-> "Before", n |-> n]

\* PruneMode::prune_target_block: the highest block a run may prune
prune_target_block(mode, tip) ==
    CASE mode.kind = "Full" -> Some(tip)
      [] mode.kind = "Distance" ->
            IF mode.n > tip THEN None ELSE Some(tip - mode.n)
      [] mode.kind = "Before" ->
            IF mode.n > tip \/ mode.n = 0 THEN None ELSE Some(mode.n - 1)

\* The segments the pruner was built with, in iteration order. mode is the
\* Option<PruneMode> that Segment::mode returns.
segments == <<
    [segment |-> "Receipts", purpose |-> "StaticFile", mode |-> Some(Before(2))],
    [segment |-> "SenderRecovery", purpose |-> "User", mode |-> None],
    [segment |-> "AccountHistory", purpose |-> "User", mode |-> Some(Distance(1))] >>

NSeg == Len(segments)
PruneSegments == {segments[i].segment : i \in 1..NSeg}

\* ----------------------------------------------------------- PruneProgress
Finished == [tag |-> "Finished", reason |-> "-"]
HasMoreData(reason) == [tag |-> "HasMoreData", reason |-> reason]

\* ------------------------------------------------------------- PruneLimiter
\* deleted: entries deleted so far in the run; limit: delete_limit;
\* timed_out: whether the deadline has passed when the limiter is asked.
PruneLimiter(deleted, limit, timed_out) ==
    [deleted |-> deleted, limit |-> limit, timed_out |-> timed_out]

\* mutant: the limit counts as reached only once it is exceeded
is_limit_reached_only_when_exceeded(limiter) ==
    limiter.deleted > limiter.limit \/ limiter.timed_out

is_limit_reached(limiter) ==
    limiter.deleted >= limiter.limit \/ limiter.timed_out

deleted_entries_limit_left(limiter) == saturating_sub(limiter.limit, limiter.deleted)

increment_deleted_entries_count_by(limiter, n) ==
    [limiter EXCEPT !.deleted = limiter.deleted + n]

interrupt_reason(limiter) ==
    IF limiter.timed_out THEN "TimeLimitReached"
    ELSE IF limiter.deleted >= limiter.limit THEN "DeletedEntriesLimitReached"
    ELSE "Unknown"

\* --------------------------------------------------------- checkpoints
\* SegmentOutputCheckpoint (Option), as a segment returns it
NoCheckpoint == [some |-> FALSE, block_number |-> 0]
Checkpoint(b) == [some |-> TRUE, block_number |-> b]

\* PruneCheckpoint (Option), as the provider stores it
NoMode == [kind |-> "-", n |-> 0]
NoPruneCheckpoint == [some |-> FALSE, block_number |-> 0, prune_mode |-> NoMode]
as_prune_checkpoint(checkpoint, prune_mode) ==
    [some |-> TRUE, block_number |-> checkpoint.block_number, prune_mode |-> prune_mode]

\* ------------------------------------------------------------ Segment::prune
\* PruneInput::get_next_block_range: from the block after the previous
\* checkpoint up to to_block; None when that range is empty.
get_next_block_range(previous_checkpoint, to_block) ==
    LET from == IF previous_checkpoint.some
                THEN previous_checkpoint.block_number + 1 ELSE 0
    IN IF from > to_block THEN None ELSE Some([from |-> from, to |-> to_block])

\* One entry per block. The segment deletes entries of the range in block
\* order while the snapshot of the limiter allows; stop_early makes it stop
\* after at most one entry (a segment-internal batch limit). tbl is the
\* segment's table.
segment_prune(tbl, previous_checkpoint, to_block, limiter, stop_early) ==
    LET range == get_next_block_range(previous_checkpoint, to_block)
    IN IF ~range.some
       THEN [pruned |-> 0, checkpoint |-> NoCheckpoint, progress |-> Finished, deleted |-> {}]
       ELSE LET blocks == range.val.from .. range.val.to
                stored == blocks \cap tbl
                left == deleted_entries_limit_left(limiter)
                budget == IF stop_early THEN Min(left, 1) ELSE left
            IN With(Lowest(stored, budget), LAMBDA gone :
                 LET done == gone = stored
                     after == increment_deleted_entries_count_by(limiter,
                                                                 Cardinality(gone))
                     last_block == IF done THEN range.val.to
                                   ELSE IF gone = {} THEN range.val.from - 1
                                   ELSE SetMax(gone)
                 IN [pruned |-> Cardinality(gone),
                     checkpoint |-> IF last_block < 0 THEN NoCheckpoint
                                    ELSE Checkpoint(last_block),
                     progress |-> IF done THEN Finished
                                  ELSE HasMoreData(interrupt_reason(after)),
                     deleted |-> gone])

\* --------------------------------------------------- Pruner::prune_segments
\* inp.deadline: the first loop position at which the deadline has passed
\*               (NSeg + 1: never, or no timeout configured);
\* inp.early:    the segments that stop before exhausting their snapshot
\*               (at most one interruption per run is enumerated);
\* inp.error:    the loop position and the call that returns an error, if any.
NoError == [at |-> 0, call |-> "-"]
Errors == {[at |-> i, call |-> c] :
              i \in 1..NSeg, c \in {"get_prune_checkpoint", "prune"}}

\* the four calls of the loop body that end in `?`: lines 195-201, 213,
\* 214-217 and 218-221; none of them is made for a segment without a mode
AllErrors == {[at |-> i, call |-> c] :
                 i \in {k \in 1..NSeg : segments[k].mode.some},
                 c \in {"prune_target_block", "get_prune_checkpoint", "prune",
                        "save_checkpoint"}}

ProviderState(cps, tbl) == [checkpoints |-> cps, table |-> tbl]

\* mutant: the checkpoint is saved even when the segment returned none
save_checkpoint_unconditional(cps, seg, segment_output, prune_mode) ==
    [cps EXCEPT ![seg.segment] =
         as_prune_checkpoint(segment_output.checkpoint, prune_mode)]

\* what the loop body does with a segment's output: lines 218-252
save_checkpoint(cps, seg, segment_output, prune_mode) ==
    IF segment_output.checkpoint.some
    THEN [cps EXCEPT ![seg.segment] =
              as_prune_checkpoint(segment_output.checkpoint, prune_mode)]
    ELSE cps

\* mutant: the run's limiter is never charged
limiter_never_charged(limiter, segment_output) == limiter

\* mutant: increment_deleted_entries_count() in place of
\* increment_deleted_entries_count_by(pruned): one per segment that pruned
limiter_charged_one_per_segment(limiter, segment_output) ==
    IF segment_output.pruned > 0
    THEN increment_deleted_entries_count_by(limiter, 1)
    ELSE limiter

limiter_after_segment(limiter, segment_output) ==
    IF segment_output.pruned > 0
    THEN increment_deleted_entries_count_by(limiter, segment_output.pruned)
    ELSE limiter

\* mutant: like the stats, the output gets an entry only for a segment that
\* pruned something
prune_segment_output_only_when_pruned(i, to_block, acc, segment_output) ==
    LET segment == segments[i]
        prune_mode == segment.mode.val
        entry == [segment |-> segment.segment,
                  pruned |-> segment_output.pruned,
                  checkpoint |-> segment_output.checkpoint,
                  progress |-> segment_output.progress]
    IN [provider |->
            ProviderState(
                save_checkpoint(acc.provider.checkpoints, segment,
                                segment_output, prune_mode),
                [acc.provider.table EXCEPT ![segment.segment] =
                     @ \ segment_output.deleted]),
        limiter |-> limiter_after_segment(acc.limiter, segment_output),
        pruned |-> acc.pruned + segment_output.pruned,
        stats |-> IF segment_output.pruned > 0
                  THEN Append(acc.stats,
                              [segment |-> segment.segment,
                               pruned |-> segment_output.pruned,
                               progress |-> segment_output.progress])
                  ELSE acc.stats,
        output |-> [progress |-> segment_output.progress,
                    segments |-> IF segment_output.pruned > 0
                                 THEN Append(acc.output.segments, entry)
                                 ELSE acc.output.segments],
        calls |-> Append(acc.calls,
                         [index |-> i, to_block |-> to_block,
                          limiter |-> acc.limiter.deleted,
                          limit |-> acc.limiter.limit,
                          deleted |-> segment_output.deleted,
                          checkpoint |-> segment_output.checkpoint]),
        error |-> acc.error]

\* one pass of the loop body for segment i: lines 203-252
prune_segment(i, to_block, acc, segment_output) ==
    LET segment == segments[i]
        prune_mode == segment.mode.val
        entry == [segment |-> segment.segment,
                  pruned |-> segment_output.pruned,
                  checkpoint |-> segment_output.checkpoint,
                  progress |-> segment_output.progress]
    IN [provider |->
            ProviderState(
                save_checkpoint(acc.provider.checkpoints, segment,
                                segment_output, prune_mode),
                [acc.provider.table EXCEPT ![segment.segment] =
                     @ \ segment_output.deleted]),
        limiter |-> limiter_after_segment(acc.limiter, segment_output),
        pruned |-> acc.pruned + segment_output.pruned,
        stats |-> IF segment_output.pruned > 0
                  THEN Append(acc.stats,
                              [segment |-> segment.segment,
                               pruned |-> segment_output.pruned,
                               progress |-> segment_output.progress])
                  ELSE acc.stats,
        output |-> [progress |-> segment_output.progress,
                    segments |-> Append(acc.output.segments, entry)],
        calls |-> Append(acc.calls,
                         [index |-> i, to_block |-> to_block,
                          limiter |-> acc.limiter.deleted,
                          limit |-> acc.limiter.limit,
                          deleted |-> segment_output.deleted,
                          checkpoint |-> segment_output.checkpoint]),
        error |-> acc.error]

\* mutant: the target is stored as the segment's checkpoint before the segment
\* prunes, so it stays when prune fails
abort_after_saving_target(acc, i, to_block, call) ==
    [acc EXCEPT
       !.error = call,
       !.provider.checkpoints[segments[i].segment] =
           IF call = "prune"
           THEN as_prune_checkpoint(Checkpoint(to_block), segments[i].mode.val)
           ELSE @]

\* the `?` of lines 201, 213, 217 and 221: prune_segments returns the error at
\* once; what the segment's prune deleted before a failing save_checkpoint
\* stays in the provider
abort(acc, i, to_block, call) == [acc EXCEPT !.error = call]

RECURSIVE prune_segments_from(_, _, _, _)
prune_segments_from(i, tip_block_number, acc, inp) ==
    IF i > NSeg THEN acc
    ELSE IF is_limit_reached([acc.limiter EXCEPT !.timed_out = (i >= inp.deadline)])
    THEN acc
    ELSE
      LET segment == segments[i]
          target == IF segment.mode.some
                    THEN prune_target_block(segment.mode.val, tip_block_number)
                    ELSE None
      IN IF inp.error.at = i /\ inp.error.call = "prune_target_block"
            /\ segment.mode.some
         THEN abort(acc, i, 0, inp.error.call)
         ELSE IF ~target.some
         THEN prune_segments_from(i + 1, tip_block_number, acc, inp)
         ELSE IF inp.error.at = i
                 /\ inp.error.call \in {"get_prune_checkpoint", "prune"}
         THEN abort(acc, i, target.val, inp.error.call)
         ELSE
           With(segment_prune(acc.provider.table[segment.segment],
                              acc.provider.checkpoints[segment.segment],
                              target.val, acc.limiter, i \in inp.early),
                LAMBDA segment_output :
                    With(prune_segment(i, target.val, acc, segment_output),
                         LAMBDA next :
                             IF inp.error.at = i /\ inp.error.call = "save_checkpoint"
                                /\ segment_output.checkpoint.some
                             THEN abort([acc EXCEPT
                                           !.provider.table = next.provider.table,
                                           !.calls = next.calls],
                                        i, target.val, inp.error.call)
                             ELSE prune_segments_from(i + 1, tip_block_number,
                                                      next, inp)))

prune_segments(provider, tip_block_number, limiter, inp) ==
    With([provider |-> provider,
          limiter |-> limiter,
          pruned |-> 0,
          stats |-> << >>,
          output |-> [progress |-> Finished, segments |-> << >>],
          calls |-> << >>,
          error |-> "-"],
         LAMBDA acc : prune_segments_from(1, tip_block_number, acc, inp))

\* ------------------------------------------------------- find_fixed_range
find_fixed_range(block) ==
    LET start == (block \div BlocksPerFile) * BlocksPerFile
    IN [start |-> start, end |-> start + BlocksPerFile - 1]

\* ------------------------------------------- the Sidecars partition files
\* A file is <<first block of its fixed range, extension>>; "sf" is the main
\* file whose name StaticFileSegment::Sidecars.filename(range) gives.
Extensions == {"sf", "conf", "off"}
PartitionStarts == {find_fixed_range(b).start : b \in SweepTips}
PartitionFiles(start) == {<<start, e>> : e \in Extensions}

\* mutant: the sweep does not look whether the file is there, so it walks
\* on over a missing partition
path_exists_not_checked(fs, range) == TRUE

path_exists(fs, range) == <<range.start, "sf">> \in fs

\* mutant: one call removes a single file of the partition, the main file last
delete_static_files_one_file(fs, range, failing) ==
    IF <<range.start, "off">> \in fs THEN fs \ {<<range.start, "off">>}
    ELSE IF <<range.start, "conf">> \in fs THEN fs \ {<<range.start, "conf">>}
    ELSE fs \ {<<range.start, "sf">>}

\* fs::remove_file of the main file, the .conf and the .off file; a failure
\* (the file is not there, or failing: the file system refuses to remove a
\* file with one of these extensions) is logged and ignored
delete_static_files(fs, range, failing) ==
    fs \ {<<range.start, e>> : e \in Extensions \ failing}

\* --------------------------------------------- Pruner::prune_ancient_sidecars
\* the while loop of lines 338-352
RECURSIVE sweep_from(_, _)
sweep_from(range_start, st) ==
    IF ~(range_start > 0) THEN st
    ELSE LET range == find_fixed_range(range_start - 1)
         IN IF path_exists(st.files, range)
            THEN With([files |-> delete_static_files(st.files, range, st.failing),
                       gauge |-> Some(range.end + 1),
                       deleted |-> st.deleted \cup {range.start},
                       probed |-> st.probed \cup {range.start},
                       failing |-> st.failing],
                      LAMBDA next : sweep_from(range.start, next))
            ELSE [st EXCEPT !.probed = @ \cup {range.start}]

\* mutant: the walk starts above the partition that holds the target
prune_ancient_sidecars_from_above_target(fs, gauge, tip_block_number, failing) ==
    LET st0 == [files |-> fs, gauge |-> gauge, deleted |-> {}, probed |-> {},
                failing |-> failing]
    IN IF recent_sidecars_kept_blocks = 0 THEN st0
       ELSE LET prune_target == saturating_sub(tip_block_number, recent_sidecars_kept_blocks)
                range_start == find_fixed_range(prune_target).end + 1
            IN sweep_from(range_start, st0)

\* mutant: recent_sidecars_kept_blocks = 0 is not special, it keeps nothing
prune_ancient_sidecars_without_zero_check(fs, gauge, tip_block_number, failing) ==
    LET st0 == [files |-> fs, gauge |-> gauge, deleted |-> {}, probed |-> {},
                failing |-> failing]
        prune_target == saturating_sub(tip_block_number, recent_sidecars_kept_blocks)
        range_start == find_fixed_range(prune_target).start
    IN IF range_start = 0 THEN st0 ELSE sweep_from(range_start, st0)

prune_ancient_sidecars(fs, gauge, tip_block_number, failing) ==
    LET st0 == [files |-> fs, gauge |-> gauge, deleted |-> {}, probed |-> {},
                failing |-> failing]
    IN IF recent_sidecars_kept_blocks = 0 THEN st0
       ELSE LET prune_target == saturating_sub(tip_block_number, recent_sidecars_kept_blocks)
                range_start == find_fixed_range(prune_target).start
            IN IF range_start = 0 THEN st0 ELSE sweep_from(range_start, st0)

\* ------------------------------- adjust_tip_block_number_to_finished_exex_height
\* mutant: NotReady is treated like NoExExs
adjust_tip_not_ready_as_no_exexs(tip_block_number) ==
    IF finished_exex_height.tag = "Height"
    THEN Some(finished_exex_height.h) ELSE Some(tip_block_number)

\* mutant: the finished height is capped by the tip
adjust_tip_min_of_height_and_tip(tip_block_number) ==
    CASE finished_exex_height.tag = "NoExExs" -> Some(tip_block_number)
      [] finished_exex_height.tag = "NotReady" -> None
      [] finished_exex_height.tag = "Height" ->
            Some(Min(finished_exex_height.h, tip_block_number))

\* mutant: the finished height is ignored
adjust_tip_ignoring_height(tip_block_number) ==
    IF finished_exex_height.tag = "NotReady" THEN None ELSE Some(tip_block_number)

adjust_tip_block_number_to_finished_exex_height(tip_block_number) ==
    CASE finished_exex_height.tag = "NoExExs" -> Some(tip_block_number)
      [] finished_exex_height.tag = "NotReady" -> None
      [] finished_exex_height.tag = "Height" -> Some(finished_exex_height.h)

\* ------------------------------------------------- Pruner::is_pruning_needed
\* mutant: abs_diff instead of saturating_sub
is_pruning_needed_abs_diff(tip_block_number) ==
    LET adjusted == adjust_tip_block_number_to_finished_exex_height(tip_block_number)
        previous == unwrap_or_default(previous_tip_block_number)
    IN IF ~adjusted.some THEN FALSE
       ELSE (IF adjusted.val >= previous THEN adjusted.val - previous
                                         ELSE previous - adjusted.val)
                >= min_block_interval

\* mutant: the previous tip is not subtracted
is_pruning_needed_ignoring_previous_tip(tip_block_number) ==
    LET adjusted == adjust_tip_block_number_to_finished_exex_height(tip_block_number)
    IN IF ~adjusted.some THEN FALSE
       ELSE adjusted.val >= min_block_interval

is_pruning_needed(tip_block_number) ==
    LET adjusted == adjust_tip_block_number_to_finished_exex_height(tip_block_number)
    IN IF ~adjusted.some THEN FALSE
       ELSE saturating_sub(adjusted.val, unwrap_or_default(previous_tip_block_number))
                >= min_block_interval

\* ------------------------------------------------ Pruner::run_with_provider
Started(tip) == [event |-> "Started", tip_block_number |-> tip]
FinishedEvent(tip) == [event |-> "Finished", tip_block_number |-> tip]

EmptyOutput == [progress |-> Finished, segments |-> << >>]

\* run_with_provider with three of its steps made variable: the early return
\* for the genesis block, the place where the previous tip is recorded, and
\* the tip the events carry
run_with_provider_variant(tip, inp, genesis_exit, tip_recorded_first,
                          events_carry_given_tip) ==
    LET adjusted == adjust_tip_block_number_to_finished_exex_height(tip)
        before == [provider |-> ProviderState(checkpoints, table),
                   files |-> files,
                   gauge |-> oldest_sidecars_height,
                   previous_tip_block_number |-> previous_tip_block_number,
                   output |-> EmptyOutput,
                   stats |-> << >>,
                   calls |-> << >>,
                   events |-> << >>,
                   swept |-> {},
                   probed |-> {},
                   sweep_tip |-> None,
                   error |-> "-"]
    IN IF ~adjusted.some THEN before
       ELSE IF genesis_exit /\ adjusted.val = 0
       THEN [before EXCEPT !.previous_tip_block_number = Some(adjusted.val)]
       ELSE
         LET tip_block_number == adjusted.val
             event_tip == IF events_carry_given_tip THEN tip ELSE tip_block_number
             limiter == PruneLimiter(0, delete_limit, FALSE)
         IN With(prune_segments(before.provider, tip_block_number, limiter, inp),
                 LAMBDA ps :
            IF ps.error # "-"
            THEN [before EXCEPT !.provider = ps.provider,
                                !.previous_tip_block_number =
                                    IF tip_recorded_first
                                    THEN Some(tip_block_number) ELSE @,
                                !.calls = ps.calls,
                                !.events = <<Started(event_tip)>>,
                                !.error = ps.error]
            ELSE
            With(prune_ancient_sidecars(files, oldest_sidecars_height,
                                        tip_block_number, inp.remove_fails),
                 LAMBDA sw :
              [provider |-> ps.provider,
               files |-> sw.files,
               gauge |-> sw.gauge,
               previous_tip_block_number |-> Some(tip_block_number),
               output |-> ps.output,
               stats |-> ps.stats,
               calls |-> ps.calls,
               events |-> <<Started(event_tip), FinishedEvent(event_tip)>>,
               swept |-> sw.deleted,
               probed |-> sw.probed,
               sweep_tip |-> Some(tip_block_number),
               error |-> "-"]))

\* mutant: the previous tip is recorded before the segments are pruned
run_with_provider_recording_tip_first(tip, inp) ==
    run_with_provider_variant(tip, inp, TRUE, TRUE, FALSE)

\* mutant: the genesis block is pruned like any other tip
run_with_provider_without_genesis_exit(tip, inp) ==
    run_with_provider_variant(tip, inp, FALSE, FALSE, FALSE)

\* mutant: the events carry the tip the caller gave, not the adjusted one
run_with_provider_events_with_given_tip(tip, inp) ==
    run_with_provider_variant(tip, inp, TRUE, FALSE, TRUE)

\* mutant: the ancient-sidecar sweep is done although prune_segments failed
run_with_provider_sweeping_after_error(tip, inp) ==
    With(run_with_provider_variant(tip, inp, TRUE, FALSE, FALSE),
         LAMBDA r :
            IF r.error = "-" THEN r
            ELSE With(prune_ancient_sidecars(
                          files, oldest_sidecars_height,
                          adjust_tip_block_number_to_finished_exex_height(tip).val,
                          inp.remove_fails),
                      LAMBDA sw : [r EXCEPT !.files = sw.files,
                                            !.gauge = sw.gauge,
                                            !.swept = sw.deleted,
                                            !.probed = sw.probed]))

\* the state a run leaves and what it returns; st is the state before it
run_with_provider(tip, inp) ==
    LET adjusted == adjust_tip_block_number_to_finished_exex_height(tip)
        before == [provider |-> ProviderState(checkpoints, table),
                   files |-> files,
                   gauge |-> oldest_sidecars_height,
                   previous_tip_block_number |-> previous_tip_block_number,
                   output |-> EmptyOutput,
                   stats |-> << >>,
                   calls |-> << >>,
                   events |-> << >>,
                   swept |-> {},
                   probed |-> {},
                   sweep_tip |-> None,
                   error |-> "-"]
    IN IF ~adjusted.some THEN before
       ELSE IF adjusted.val = 0
       THEN [before EXCEPT !.previous_tip_block_number = Some(adjusted.val)]
       ELSE
         LET tip_block_number == adjusted.val
             limiter == PruneLimiter(0, delete_limit, FALSE)
         IN With(prune_segments(before.provider, tip_block_number, limiter, inp),
                 LAMBDA ps :
            IF ps.error # "-"
            THEN [before EXCEPT !.provider = ps.provider,
                                !.calls = ps.calls,
                                !.events = <<Started(tip_block_number)>>,
                                !.error = ps.error]
            ELSE
            With(prune_ancient_sidecars(files, oldest_sidecars_height,
                                        tip_block_number, inp.remove_fails),
                 LAMBDA sw :
              [provider |-> ps.provider,
               files |-> sw.files,
               gauge |-> sw.gauge,
               previous_tip_block_number |-> Some(tip_block_number),
               output |-> ps.output,
               stats |-> ps.stats,
               calls |-> ps.calls,
               events |-> <<Started(tip_block_number), FinishedEvent(tip_block_number)>>,
               swept |-> sw.deleted,
               probed |-> sw.probed,
               sweep_tip |-> Some(tip_block_number),
               error |-> "-"]))

\* ------------------------------------------------------------------ actions
\* inp.remove_fails: the extensions of the files fs::remove_file fails to
\*                   remove during the sweep of the run
Inputs ==
    {[deadline |-> d, early |-> {}, error |-> NoError, remove_fails |-> {},
     provider_error |-> "-"] :
         d \in 1..(NSeg + 1)}
    \cup {[deadline |-> NSeg + 1, early |-> {i}, error |-> NoError,
           remove_fails |-> {},
     provider_error |-> "-"] : i \in 1..NSeg}

\* no deadline passes and no segment stops before its budget is used up
NoInterruption ==
    [deadline |-> NSeg + 1, early |-> {}, error |-> NoError, remove_fails |-> {},
     provider_error |-> "-"]

\* one call of the loop returns an error
FailingInputs == {[NoInterruption EXCEPT !.error = e] : e \in Errors}

NoLast == [op |-> "none", tip |-> 0, needed |-> FALSE, output |-> EmptyOutput,
           calls |-> << >>, events |-> << >>, swept |-> {}, probed |-> {},
           sweep_tip |-> None,
           again |-> FALSE, inp |-> NoInterruption, error |-> "-"]

\* the sweep with this tip directly follows a sweep with the same tip
SweptJustBefore(sweep_tip) ==
    /\ last.op \in {"run", "prune_ancient_sidecars"}
    /\ sweep_tip.some
    /\ last.sweep_tip = sweep_tip

\* mutant: the provider is committed only when the run returned Ok
commit_unless_run_failed(db, r, inp) ==
    IF inp.provider_error = "commit" \/ r.error # "-" THEN db ELSE r.provider

\* provider.commit() of line 413: what the database holds afterwards; a commit
\* that fails leaves it as it was before the run
commit(db, r, inp) ==
    IF inp.provider_error = "commit" THEN db ELSE r.provider

\* Pruner::run(tip), lines 410-415: provider_rw()?, run_with_provider, then
\* provider.commit()?, then the run's result.
\* inp.provider_error: which of provider_rw and commit returns an error
Run(tip, inp) ==
    IF inp.provider_error = "provider_rw"
    THEN /\ last' = [NoLast EXCEPT !.op = "run", !.tip = tip, !.inp = inp,
                                   !.error = "provider_rw"]
         /\ UNCHANGED <<pruner_vars, sfs_vars, builder_vars>>
    ELSE
    \E r \in {run_with_provider(tip, inp)} :
    \E db \in {commit(ProviderState(checkpoints, table), r, inp)} :
       /\ checkpoints' = db.checkpoints
       /\ table' = db.table
       /\ files' = r.files
       /\ oldest_sidecars_height' = r.gauge
       /\ previous_tip_block_number' = r.previous_tip_block_number
       /\ last' = [NoLast EXCEPT !.op = "run", !.tip = tip,
                                 !.output = IF inp.provider_error = "commit"
                                            THEN EmptyOutput ELSE r.output,
                                 !.calls = r.calls,
                                 !.events = r.events, !.swept = r.swept,
                                 !.probed = r.probed,
                                 !.sweep_tip = r.sweep_tip,
                                 !.again = SweptJustBefore(r.sweep_tip),
                                 !.inp = inp,
                                 !.error = IF inp.provider_error = "commit"
                                           THEN "commit" ELSE r.error]
       /\ UNCHANGED <<min_block_interval, delete_limit, recent_sidecars_kept_blocks,
                      finished_exex_height, sfs_vars, builder_vars>>

\* a caller asks Pruner::is_pruning_needed(tip)
IsPruningNeeded(tip) ==
    /\ last' = [NoLast EXCEPT !.op = "is_pruning_needed", !.tip = tip,
                              !.needed = is_pruning_needed(tip)]
    /\ UNCHANGED <<pruner_vars, sfs_vars, builder_vars>>

\* the ExEx manager publishes a new value on the watch channel
SendFinishedExExHeight(v) ==
    /\ finished_exex_height # v
    /\ finished_exex_height' = v
    /\ last' = [NoLast EXCEPT !.op = "send_finished_exex_height"]
    /\ UNCHANGED <<min_block_interval, previous_tip_block_number, delete_limit,
                   recent_sidecars_kept_blocks, oldest_sidecars_height,
                   checkpoints, table, files, sfs_vars, builder_vars>>

\* a caller runs Pruner::prune_ancient_sidecars(provider, tip) on its own
PruneAncientSidecars(tip, failing) ==
    /\ \E sw \in {prune_ancient_sidecars(files, oldest_sidecars_height, tip,
                                         failing)} :
          /\ files' = sw.files
          /\ oldest_sidecars_height' = sw.gauge
          /\ last' = [NoLast EXCEPT !.op = "prune_ancient_sidecars", !.tip = tip,
                                    !.swept = sw.deleted, !.probed = sw.probed,
                                    !.sweep_tip = Some(tip),
                                    !.again = SweptJustBefore(Some(tip)),
                                    !.inp.remove_fails = failing]
    /\ UNCHANGED <<min_block_interval, previous_tip_block_number, delete_limit,
                   recent_sidecars_kept_blocks, finished_exex_height,
                   checkpoints, table, sfs_vars, builder_vars>>

\* the static-file service creates the Sidecars partition of a fixed range
CreateSidecarsPartition(start) ==
    /\ <<start, "sf">> \notin files
    /\ files' = files \cup PartitionFiles(start)
    /\ last' = [NoLast EXCEPT !.op = "create_partition"]
    /\ UNCHANGED <<min_block_interval, previous_tip_block_number, delete_limit,
                   recent_sidecars_kept_blocks, finished_exex_height,
                   oldest_sidecars_height, checkpoints, table, sfs_vars, builder_vars>>

\* ======================================================= static-file service
StaticFileSegments == {"Headers", "Transactions", "Receipts", "Sidecars"}
Blocks == 0..MaxBlock

\* one static-file segment: its rows in append order, and the highest block
\* its header records
Row(b, n) == [block |-> b, number |-> n]
EmptySegment == [rows |-> << >>, block_end |-> None]
Range(s) == {s[i] : i \in 1..Len(s)}

\* DB: BlockBodyIndices of a block
RECURSIVE first_tx_num(_)
first_tx_num(b) == IF b = 0 THEN 0 ELSE first_tx_num(b - 1) + block_body_indices[b - 1]
last_tx_num(b) == saturating_sub(first_tx_num(b) + block_body_indices[b], 1)

\* DB: the inclusive tx-number range of the inclusive block range lo..=hi
transaction_range_by_block_range(lo, hi) ==
    [start |-> first_tx_num(lo), end |-> last_tx_num(hi)]

\* StaticFileProvider reads
get_highest_static_file_block(sf, segment) == sf[segment].block_end
get_highest_static_file_tx(sf, segment) ==
    IF sf[segment].rows = << >> THEN None
    ELSE Some(sf[segment].rows[Len(sf[segment].rows)].number)

\* StaticFileProviderRW appends
append_header(w, number) ==
    [rows |-> Append(w.rows, Row(number, number)), block_end |-> Some(number)]
append_sidecars(w, number) ==
    [rows |-> Append(w.rows, Row(number, number)), block_end |-> Some(number)]
append_transaction(w, tx_number, number) ==
    [w EXCEPT !.rows = Append(w.rows, Row(number, tx_number))]
append_receipt(w, tx_number, number) ==
    [w EXCEPT !.rows = Append(w.rows, Row(number, tx_number))]
increment_block(w, number) == [w EXCEPT !.block_end = Some(number)]

\* StaticFileProviderRW truncations: the last to_delete rows go
DropLast(rows, to_delete) == SubSeq(rows, 1, saturating_sub(Len(rows), to_delete))
LastBlockOf(rows) == IF rows = << >> THEN None ELSE Some(rows[Len(rows)].block)
prune_transactions(w, to_delete, last_block) ==
    [rows |-> DropLast(w.rows, to_delete),
     block_end |-> IF w.block_end.some THEN Some(Min(w.block_end.val, last_block))
                   ELSE None]
prune_receipts(w, to_delete, last_block) ==
    [rows |-> DropLast(w.rows, to_delete),
     block_end |-> IF w.block_end.some THEN Some(Min(w.block_end.val, last_block))
                   ELSE None]
prune_headers(w, to_delete) ==
    [rows |-> DropLast(w.rows, to_delete),
     block_end |-> LastBlockOf(DropLast(w.rows, to_delete))]
prune_sidecars(w, to_delete) ==
    [rows |-> DropLast(w.rows, to_delete),
     block_end |-> LastBlockOf(DropLast(w.rows, to_delete))]

\* StaticFileAction
NoAction == [op |-> "none", number |-> 0, txs |-> 0, start_tx_number |-> 0,
             blocks |-> << >>, block_num |-> 0]
LogTransactions(number, txs, start_tx_number) ==
    [NoAction EXCEPT !.op = "LogTransactions", !.number = number, !.txs = txs,
                     !.start_tx_number = start_tx_number]
WriteExecutionData(blocks) ==
    [NoAction EXCEPT !.op = "WriteExecutionData", !.blocks = blocks]
RemoveBlocksAbove(block_num) ==
    [NoAction EXCEPT !.op = "RemoveBlocksAbove", !.block_num = block_num]

\* DatabaseAction; sender is the oneshot sender that came with the
\* static-file action, named by the position of that action in arrival order
UpdateTransactionMeta(number, sender) ==
    [op |-> "UpdateTransactionMeta", number |-> number, blocks |-> << >>,
     sender |-> sender]
SaveBlocks(blocks, sender) ==
    [op |-> "SaveBlocks", number |-> 0, blocks |-> blocks, sender |-> sender]

\* the service thread: where it is, the action it handles, the locals of
\* remove_blocks_above, and whether a static-file operation of the action
\* returned an error
Idle == [pc |-> "idle", step |-> 0, action |-> NoAction,
         highest_static_file_block |-> 0, total_txs |-> 0, failed |-> FALSE]
BlockCount(seg) == IF seg.block_end.some THEN seg.block_end.val + 1 ELSE 0
Lengths(sf) ==
    [s \in StaticFileSegments |->
        [blocks |-> BlockCount(sf[s]), entries |-> Len(sf[s].rows)]]
Completed(action, lengths) == [action |-> action, before |-> lengths]
Remember(done, entry) ==
    IF Len(done) < 2 THEN Append(done, entry) ELSE <<done[2], entry>>

\* log_transactions, lines 64-88: what the three writers hold before commit
RECURSIVE append_transactions(_, _, _, _)
append_transactions(w, tx_number, left, number) ==
    IF left = 0 THEN w
    ELSE append_transactions(append_transaction(w, tx_number, number),
                             tx_number + 1, left - 1, number)

log_transactions_appends(w, action) ==
    [w EXCEPT
       !.Headers = append_header(w.Headers, action.number),
       !.Transactions =
           increment_block(
               append_transactions(w.Transactions, action.start_tx_number,
                                   action.txs, action.number),
               action.number),
       !.Sidecars = append_sidecars(w.Sidecars, action.number)]

\* mutant: the header writer is committed first
commit_order_headers_first == <<"Headers", "Transactions", "Sidecars">>

\* log_transactions, lines 91-93
commit_order == <<"Transactions", "Headers", "Sidecars">>

\* write_execution_data, lines 131-145: the receipts writer before commit
RECURSIVE append_receipts(_, _, _, _)
append_receipts(w, current_receipt, receipts, number) ==
    IF receipts = << >> THEN w
    ELSE append_receipts(
             IF Head(receipts) THEN append_receipt(w, current_receipt, number) ELSE w,
             current_receipt + 1, Tail(receipts), number)

RECURSIVE write_blocks(_, _, _, _)
write_blocks(w, current_receipt, blocks, current_block) ==
    IF blocks = << >> THEN w
    ELSE write_blocks(
             increment_block(
                 append_receipts(w, current_receipt, Head(blocks).receipts,
                                 current_block),
                 current_block),
             current_receipt + Len(Head(blocks).receipts),
             Tail(blocks), current_block + 1)

\* mutant: numbering starts at the highest receipt tx number, not after it
write_execution_data_appends_from_highest(sf, w, blocks) ==
    LET highest == get_highest_static_file_tx(sf, "Receipts")
        current_receipt == IF highest.some THEN highest.val ELSE 0
    IN [w EXCEPT !.Receipts =
            write_blocks(w.Receipts, current_receipt, blocks, blocks[1].number)]

write_execution_data_appends(sf, w, blocks) ==
    LET highest == get_highest_static_file_tx(sf, "Receipts")
        current_receipt == IF highest.some THEN highest.val + 1 ELSE 0
    IN [w EXCEPT !.Receipts =
            write_blocks(w.Receipts, current_receipt, blocks, blocks[1].number)]

\* remove_blocks_above, line 187
total_txs_of(block_num, highest_static_file_block) ==
    LET tx_range == transaction_range_by_block_range(block_num,
                                                     highest_static_file_block)
    IN saturating_sub(tx_range.end, tx_range.start)

\* remove_blocks_above, lines 197-205, in program order
truncate_order == <<"Receipts", "Transactions", "Headers", "Sidecars">>

truncate_segment(sf, segment, svc) ==
    LET block_num == svc.action.block_num
    IN CASE segment = "Receipts" ->
              prune_receipts(sf.Receipts, svc.total_txs, block_num)
         [] segment = "Transactions" ->
              prune_transactions(sf.Transactions, svc.total_txs, block_num)
         [] segment = "Headers" ->
              prune_headers(sf.Headers,
                  saturating_sub(svc.highest_static_file_block, block_num))
         [] segment = "Sidecars" ->
              prune_sidecars(sf.Sidecars,
                  saturating_sub(
                      get_highest_static_file_block(sf, "Sidecars").val,
                      block_num))

\* ------------------------------------------------- oneshot reply senders
\* "queued": inside the action waiting in the channel or being handled;
\* "forwarded": moved into the DatabaseAction sent to the DB service;
\* "signalled": send(()) was called on it; "dropped": destroyed unused, the
\* requester sees a closed channel.
move_reply(rs, k, to) == [rs EXCEPT ![k] = to]

\* the service thread unwinds: the action in hand and the receiver with
\* everything still queued are destroyed
drop_replies(rs, from) ==
    [k \in 1..Len(rs) |-> IF k >= from /\ rs[k] = "queued" THEN "dropped" ELSE rs[k]]

\* ----------------------------------------------- StaticFileServiceHandle
CanSend ==
    /\ handles > 0
    /\ service.pc \notin {"crashed", "panicked"}
    /\ Len(incoming) < MaxQueue
    /\ sent < MaxActions

\* mutant: the channel hands out the newest action first
send_action_to_front(action) ==
    /\ incoming' = <<action>> \o incoming
    /\ sent' = sent + 1
    /\ arrived' = Append(arrived, action)
    /\ replies' = Append(replies, "queued")

send_action(action) ==
    /\ incoming' = Append(incoming, action)
    /\ sent' = sent + 1
    /\ arrived' = Append(arrived, action)
    /\ replies' = Append(replies, "queued")

\* the engine hands over the next canonical block
SendLogTransactions ==
    /\ CanSend
    /\ canonical <= MaxBlock
    /\ send_action(LogTransactions(canonical, block_body_indices[canonical],
                                   first_tx_num(canonical)))
    /\ canonical' = canonical + 1
    /\ UNCHANGED <<executed, block_body_indices, static_files, writers, service,
                   database_handle, completed, lengths_before, pruner_vars, builder_vars,
                   database, received,
                   handles, last>>

\* the receipts of blocks: one flag per transaction, FALSE for a pruned receipt
ExecutedBlock(number, pruned) ==
    [number |-> number,
     receipts |-> [i \in 1..block_body_indices[number] |-> ~(pruned /\ i = 1)]]

\* the engine hands over the next k executed blocks
SendWriteExecutionData(k, pruned) ==
    /\ CanSend
    /\ executed + k <= canonical
    /\ pruned => k > 0
    /\ send_action(WriteExecutionData(
           [j \in 1..k |-> ExecutedBlock(executed + j - 1, pruned)]))
    /\ executed' = executed + k
    /\ UNCHANGED <<canonical, block_body_indices, static_files, writers, service,
                   database_handle, completed, lengths_before, pruner_vars, builder_vars,
                   database, received,
                   handles, last>>

\* the DB service unwinds the chain to block n
SendRemoveBlocksAbove(n) ==
    /\ CanSend
    /\ n < canonical
    /\ send_action(RemoveBlocksAbove(n))
    /\ canonical' = n + 1
    /\ executed' = Min(executed, n + 1)
    /\ UNCHANGED <<block_body_indices, static_files, writers, service,
                   database_handle, completed, lengths_before, pruner_vars, builder_vars,
                   database, received,
                   handles, last>>

\* ------------------------------------------------ StaticFileService::run
Receivable(op) ==
    /\ service.pc = "idle"
    /\ incoming # << >>
    /\ Head(incoming).op = op

\* log_transactions up to the first commit
RecvLogTransactions ==
    /\ Receivable("LogTransactions")
    /\ incoming' = Tail(incoming)
    /\ received' = received + 1
    /\ writers' = log_transactions_appends(writers, Head(incoming))
    /\ service' = [Idle EXCEPT !.pc = "log_transactions",
                               !.action = Head(incoming)]
    /\ lengths_before' = Lengths(static_files)
    /\ UNCHANGED <<static_files, database_handle, completed, sent, canonical,
                   executed, block_body_indices, pruner_vars, builder_vars,
                   database, arrived, replies, handles, last>>

\* one writer.commit() of log_transactions
CommitWriter ==
    /\ service.pc = "log_transactions"
    /\ service.step < Len(commit_order)
    /\ LET segment == commit_order[service.step + 1]
       IN static_files' = [static_files EXCEPT ![segment] = writers[segment]]
    /\ service' = [service EXCEPT !.step = service.step + 1]
    /\ UNCHANGED <<incoming, writers, database_handle, completed, lengths_before, sent,
                   canonical, executed, block_body_indices, pruner_vars, builder_vars,
                   database, arrived, received, replies, handles, last>>

\* log_transactions writing the headers stage checkpoint itself instead of
\* handing it to the DB service
SendUpdateTransactionMeta_writing_checkpoint ==
    /\ service.pc = "log_transactions"
    /\ service.step = Len(commit_order)
    /\ database' = [database EXCEPT !.headers = Some(service.action.number)]
    /\ completed' = Remember(completed, Completed(service.action, lengths_before))
    /\ replies' = move_reply(replies, received, "forwarded")
    /\ service' = Idle
    /\ UNCHANGED <<incoming, static_files, writers, lengths_before, sent, canonical,
                   executed, block_body_indices, pruner_vars, builder_vars,
                   database_handle, arrived, received, handles, last>>

\* mutant: the DB service is told before the sidecars writer is committed,
\* and the commit is left out
SendUpdateTransactionMeta_before_last_commit ==
    /\ service.pc = "log_transactions"
    /\ service.step = Len(commit_order) - 1
    /\ database_handle' =
           Append(database_handle,
                  UpdateTransactionMeta(service.action.number, received))
    /\ completed' = Remember(completed, Completed(service.action, lengths_before))
    /\ replies' = move_reply(replies, received, "forwarded")
    /\ service' = Idle
    /\ UNCHANGED <<incoming, static_files, writers, lengths_before, sent, canonical,
                   executed, block_body_indices, pruner_vars, builder_vars,
                   database, arrived, received, handles, last>>

\* log_transactions, lines 97-101
SendUpdateTransactionMeta ==
    /\ service.pc = "log_transactions"
    /\ service.step = Len(commit_order)
    /\ database_handle' =
           Append(database_handle,
                  UpdateTransactionMeta(service.action.number, received))
    /\ completed' = Remember(completed, Completed(service.action, lengths_before))
    /\ replies' = move_reply(replies, received, "forwarded")
    /\ service' = Idle
    /\ UNCHANGED <<incoming, static_files, writers, lengths_before, sent, canonical,
                   executed, block_body_indices, pruner_vars, builder_vars,
                   database, arrived, received,
                   handles, last>>

\* mutant: an empty list is handled like any other: the receipts writer is
\* taken, committed and SaveBlocks is sent
RecvWriteExecutionData_without_empty_check ==
    /\ Receivable("WriteExecutionData")
    /\ incoming' = Tail(incoming)
    /\ received' = received + 1
    /\ lengths_before' = Lengths(static_files)
    /\ writers' = IF Head(incoming).blocks = << >> THEN writers
                  ELSE write_execution_data_appends(static_files, writers,
                                                    Head(incoming).blocks)
    /\ service' = [Idle EXCEPT !.pc = "write_execution_data",
                               !.action = Head(incoming)]
    /\ UNCHANGED <<completed, replies>>
    /\ UNCHANGED <<static_files, database_handle, sent, canonical, executed,
                   block_body_indices, pruner_vars, builder_vars,
                   database, arrived, handles, last>>

\* write_execution_data up to the commit; an empty list returns at once
RecvWriteExecutionData ==
    /\ Receivable("WriteExecutionData")
    /\ incoming' = Tail(incoming)
    /\ received' = received + 1
    /\ lengths_before' = Lengths(static_files)
    /\ IF Head(incoming).blocks = << >>
       THEN /\ completed' = Remember(completed,
                                     Completed(Head(incoming), Lengths(static_files)))
            /\ replies' = move_reply(replies, received + 1, "dropped")
            /\ UNCHANGED <<writers, service>>
       ELSE /\ writers' = write_execution_data_appends(static_files, writers,
                                                       Head(incoming).blocks)
            /\ service' = [Idle EXCEPT !.pc = "write_execution_data",
                                       !.action = Head(incoming)]
            /\ UNCHANGED <<completed, replies>>
    /\ UNCHANGED <<static_files, database_handle, sent, canonical, executed,
                   block_body_indices, pruner_vars, builder_vars,
                   database, arrived, handles, last>>

\* write_execution_data, line 148
CommitReceipts ==
    /\ service.pc = "write_execution_data"
    /\ service.step = 0
    /\ static_files' = [static_files EXCEPT !.Receipts = writers.Receipts]
    /\ service' = [service EXCEPT !.step = 1]
    /\ UNCHANGED <<incoming, writers, database_handle, completed, lengths_before, sent,
                   canonical, executed, block_body_indices, pruner_vars, builder_vars,
                   database, arrived, received, replies, handles, last>>

\* write_execution_data, lines 152-154
SendSaveBlocks ==
    /\ service.pc = "write_execution_data"
    /\ service.step = 1
    /\ database_handle' =
           Append(database_handle, SaveBlocks(service.action.blocks, received))
    /\ completed' = Remember(completed, Completed(service.action, lengths_before))
    /\ replies' = move_reply(replies, received, "forwarded")
    /\ service' = Idle
    /\ UNCHANGED <<incoming, static_files, writers, lengths_before, sent, canonical,
                   executed, block_body_indices, pruner_vars, builder_vars,
                   database, arrived, received,
                   handles, last>>

\* remove_blocks_above up to the first truncation; without headers the
\* expect() panics
RecvRemoveBlocksAbove ==
    /\ Receivable("RemoveBlocksAbove")
    /\ received' = received + 1
    /\ lengths_before' = Lengths(static_files)
    /\ LET highest == get_highest_static_file_block(static_files, "Headers")
       IN IF ~highest.some
          THEN /\ service' = [Idle EXCEPT !.pc = "panicked",
                                          !.action = Head(incoming)]
               /\ incoming' = << >>
               /\ replies' = drop_replies(replies, received + 1)
          ELSE /\ service' =
                    [Idle EXCEPT
                       !.pc = "remove_blocks_above",
                       !.action = Head(incoming),
                       !.highest_static_file_block = highest.val,
                       !.total_txs = total_txs_of(Head(incoming).block_num,
                                                  highest.val)]
               /\ incoming' = Tail(incoming)
               /\ UNCHANGED replies
    /\ UNCHANGED <<static_files, writers, database_handle, completed, sent,
                   canonical, executed, block_body_indices, pruner_vars, builder_vars,
                   database, arrived,
                   handles, last>>

\* one prune_* call of remove_blocks_above; each commits internally
Truncate ==
    /\ service.pc = "remove_blocks_above"
    /\ service.step < Len(truncate_order)
    /\ LET segment == truncate_order[service.step + 1]
           sf == [static_files EXCEPT
                    ![segment] = truncate_segment(static_files, segment, service)]
       IN /\ static_files' = sf
          /\ writers' = sf
    /\ service' = [service EXCEPT !.step = service.step + 1]
    /\ UNCHANGED <<incoming, database_handle, completed, lengths_before, sent, canonical,
                   executed, block_body_indices, pruner_vars, builder_vars,
                   database, arrived, received, replies, handles, last>>

\* remove_blocks_above, lines 207-209: the reply sender is dropped unused
FinishRemoveBlocksAbove ==
    /\ service.pc = "remove_blocks_above"
    /\ service.step = Len(truncate_order)
    /\ completed' = Remember(completed, Completed(service.action, lengths_before))
    /\ replies' = move_reply(replies, received, "dropped")
    /\ service' = Idle
    /\ UNCHANGED <<incoming, static_files, writers, database_handle, lengths_before, sent,
                   canonical, executed, block_body_indices, pruner_vars, builder_vars,
                   database, arrived, received,
                   handles, last>>

\* the process dies inside an action: what no writer committed is lost
Crash ==
    /\ service.pc \in {"log_transactions", "write_execution_data",
                       "remove_blocks_above"}
    /\ service' = [service EXCEPT !.pc = "crashed"]
    /\ writers' = static_files
    /\ UNCHANGED <<incoming, static_files, database_handle, completed, lengths_before,
                   sent, canonical, executed, block_body_indices, pruner_vars, builder_vars,
                   database, arrived, received,
                   replies, handles, last>>

\* the handler is at a call whose result is propagated with `?`
AtFallibleOperation ==
    \/ service.pc = "log_transactions" /\ service.step < Len(commit_order)
    \/ service.pc = "write_execution_data" /\ service.step = 0
    \/ service.pc = "remove_blocks_above"

\* mutant: the error is swallowed and the loop goes on to the next recv()
expect_logs_and_continues == "idle"

\* Result::expect("todo: handle errors") on an Err panics
expect == "panicked"

\* a static-file operation of the handler returns an error: the handler
\* returns Err to run
FailStaticFileOperation ==
    /\ AtFallibleOperation
    /\ service' = [service EXCEPT !.pc = expect, !.failed = TRUE]
    /\ writers' = static_files
    /\ incoming' = << >>
    /\ replies' = drop_replies(replies, received)
    /\ UNCHANGED <<static_files, database_handle, completed, lengths_before, sent,
                   canonical, executed, block_body_indices, pruner_vars, builder_vars,
                   database, arrived,
                   received, handles, last>>

\* StaticFileServiceHandle is Clone
CloneHandle ==
    /\ handles \in 1..(MaxHandles - 1)
    /\ handles' = handles + 1
    /\ UNCHANGED <<incoming, static_files, writers, service, database_handle,
                   completed, lengths_before, sent, canonical, executed,
                   block_body_indices, pruner_vars, builder_vars,
                   database, arrived, received, replies, last>>

\* a handle goes out of scope
DropHandle ==
    /\ handles > 0
    /\ handles' = handles - 1
    /\ UNCHANGED <<incoming, static_files, writers, service, database_handle,
                   completed, lengths_before, sent, canonical, executed,
                   block_body_indices, pruner_vars, builder_vars,
                   database, arrived, received, replies, last>>

\* mutant: recv() fails as soon as no sender is left
recv_disconnected_ignoring_queue == handles = 0

\* Receiver::recv returns Err: every sender is gone and nothing is queued
recv_disconnected == handles = 0 /\ incoming = << >>

\* `while let Ok(action) = self.incoming.recv()` ends and run returns
Stop ==
    /\ service.pc = "idle"
    /\ recv_disconnected
    /\ service' = [service EXCEPT !.pc = "stopped"]
    /\ UNCHANGED <<incoming, static_files, writers, database_handle, completed,
                   lengths_before, sent, canonical, executed, block_body_indices,
                   pruner_vars, builder_vars,
                   database, arrived, received, replies, handles, last>>

\* ------------------------------------------------------- the DB service
\* The DB service takes the DatabaseActions in the order they were sent and
\* advances its stage checkpoints: headers and bodies on
\* UpdateTransactionMeta, execution on SaveBlocks.
NoStageCheckpoints == [handled |-> 0, headers |-> None, execution |-> None]

advance_checkpoints(db, action) ==
    CASE action.op = "UpdateTransactionMeta" ->
            [db EXCEPT !.handled = @ + 1, !.headers = Some(action.number)]
      [] action.op = "SaveBlocks" ->
            [db EXCEPT !.handled = @ + 1,
                       !.execution = Some(action.blocks[Len(action.blocks)].number)]

DatabaseServiceStep ==
    /\ database.handled < Len(database_handle)
    /\ database' = advance_checkpoints(database, database_handle[database.handled + 1])
    /\ UNCHANGED <<incoming, static_files, writers, service, database_handle,
                   completed, lengths_before, sent, canonical, executed,
                   block_body_indices, pruner_vars, builder_vars, arrived, received,
                   replies, handles, last>>

\* ============================================================ PrunerBuilder
\* PruneModes: an Option<PruneMode> per part, and the log filter as the set
\* of addresses it has an entry for
Addresses == 1..MaxFilter
OptionalModes == {None, Some(Full)}
PruneModes ==
    [sender_recovery : OptionalModes,
     transaction_lookup : OptionalModes,
     receipts : OptionalModes,
     account_history : OptionalModes,
     storage_history : OptionalModes,
     receipts_log_filter : SUBSET Addresses]

\* PruneModes::none()
PruneModesNone ==
    [sender_recovery |-> None, transaction_lookup |-> None, receipts |-> None,
     account_history |-> None, storage_history |-> None, receipts_log_filter |-> {}]

\* SegmentSet::segment and SegmentSet::segment_opt; a segment is the name of
\* its type and what it was constructed with
NewSegment(type, with) == [type |-> type, with |-> with]
with_segment(inner, seg) == Append(inner, seg)
with_segment_opt(inner, seg) == IF seg.some THEN with_segment(inner, seg.val) ELSE inner

\* Option::map(Type::new)
map_new(mode, type) == IF mode.some THEN Some(NewSegment(type, mode.val)) ELSE None

\* (!receipts_log_filter.is_empty()).then(|| ReceiptsByLogs::new(filter))
then_receipts_by_logs(filter) ==
    IF filter # {} THEN Some(NewSegment("ReceiptsByLogs", filter)) ELSE None

\* mutant: the lookup and sender-recovery segments come before the receipts
from_components_lookup_before_receipts(prune_modes) ==
    LET s4 == <<NewSegment("StaticFileHeaders", "static_file_provider"),
                NewSegment("StaticFileTransactions", "static_file_provider"),
                NewSegment("StaticFileReceipts", "static_file_provider"),
                NewSegment("StaticFileSidecars", "static_file_provider")>>
        s5 == with_segment_opt(s4, map_new(prune_modes.account_history, "AccountHistory"))
        s6 == with_segment_opt(s5, map_new(prune_modes.storage_history, "StorageHistory"))
        s7 == with_segment_opt(s6, map_new(prune_modes.transaction_lookup, "TransactionLookup"))
        s8 == with_segment_opt(s7, map_new(prune_modes.sender_recovery, "SenderRecovery"))
        s9 == with_segment_opt(s8, map_new(prune_modes.receipts, "UserReceipts"))
    IN with_segment_opt(s9, then_receipts_by_logs(prune_modes.receipts_log_filter))

\* SegmentSet::from_components followed by into_vec
from_components(prune_modes) ==
    LET s1 == with_segment(<< >>, NewSegment("StaticFileHeaders", "static_file_provider"))
        s2 == with_segment(s1, NewSegment("StaticFileTransactions", "static_file_provider"))
        s3 == with_segment(s2, NewSegment("StaticFileReceipts", "static_file_provider"))
        s4 == with_segment(s3, NewSegment("StaticFileSidecars", "static_file_provider"))
        s5 == with_segment_opt(s4, map_new(prune_modes.account_history, "AccountHistory"))
        s6 == with_segment_opt(s5, map_new(prune_modes.storage_history, "StorageHistory"))
        s7 == with_segment_opt(s6, map_new(prune_modes.receipts, "UserReceipts"))
        s8 == with_segment_opt(s7, then_receipts_by_logs(prune_modes.receipts_log_filter))
        s9 == with_segment_opt(s8, map_new(prune_modes.transaction_lookup,
                                      "TransactionLookup"))
    IN with_segment_opt(s9, map_new(prune_modes.sender_recovery, "SenderRecovery"))

\* PrunerBuilder::default
InitBuilder ==
    /\ builder = [segments |-> PruneModesNone, recent_sidecars_kept_blocks |-> 0]
    /\ built = << >>

\* PrunerBuilder::segments
BuilderSegments(prune_modes) ==
    /\ builder.segments # prune_modes
    /\ builder' = [builder EXCEPT !.segments = prune_modes]
    /\ UNCHANGED <<built, pruner_vars, last, sfs_vars>>

\* PrunerBuilder::build and build_with_provider_factory: the segments handed
\* to Pruner::new, remembered with the configuration they were built from
Build ==
    /\ built' = <<[prune_modes |-> builder.segments,
                   segments |-> from_components(builder.segments),
                   recent_sidecars_kept_blocks |-> builder.recent_sidecars_kept_blocks]>>
    /\ built' # built
    /\ UNCHANGED <<builder, pruner_vars, last, sfs_vars>>

\* ------------------------------------------------------------ specifications
\* The arguments of Pruner::new
Config(i, d, k) ==
    [min_block_interval |-> i, delete_limit |-> d, recent_sidecars_kept_blocks |-> k]

\* the state after StaticFileService::new, over a chain drawn from chains
InitService(chains) ==
    /\ block_body_indices \in chains
    /\ incoming = << >>
    /\ static_files = [s \in StaticFileSegments |-> EmptySegment]
    /\ writers = [s \in StaticFileSegments |-> EmptySegment]
    /\ service = Idle
    /\ database_handle = << >>
    /\ database = NoStageCheckpoints
    /\ canonical = 0
    /\ executed = 0
    /\ sent = 0
    /\ lengths_before = Lengths([s \in StaticFileSegments |-> EmptySegment])
    /\ completed = << >>
    /\ arrived = << >>
    /\ received = 0
    /\ replies = << >>
    /\ handles = 1
    /\ InitBuilder

\* the state after Pruner::new with arguments drawn from cs
InitWith(cs) ==
    /\ \E c \in cs :
          /\ min_block_interval = c.min_block_interval
          /\ delete_limit = c.delete_limit
          /\ recent_sidecars_kept_blocks = c.recent_sidecars_kept_blocks
    /\ previous_tip_block_number = None
    /\ finished_exex_height = NoExExs
    /\ oldest_sidecars_height = None
    /\ checkpoints = [s \in PruneSegments |-> NoPruneCheckpoint]
    /\ table = [s \in PruneSegments |-> Tips]
    /\ files = {}
    /\ last = NoLast
    /\ InitService({[b \in Blocks |-> 1]})

\* every delete limit, interval 1, no sidecar retention
Init == InitWith({Config(1, d, 0) : d \in 0..MaxDeleteLimit})

\* every interval, nothing to delete
InitNeeded == InitWith({Config(i, 0, 0) : i \in 0..MaxInterval})

RunAny == \E tip \in Tips, inp \in Inputs : Run(tip, inp)
IsPruningNeededAny == \E tip \in Tips : IsPruningNeeded(tip)
SendFinishedExExHeightAny == \E v \in FinishedExExHeights : SendFinishedExExHeight(v)
CreateSidecarsPartitionAny == \E start \in PartitionStarts : CreateSidecarsPartition(start)

Next ==
    \/ RunAny
    \/ IsPruningNeededAny
    \/ SendFinishedExExHeightAny

Spec == Init /\ [][Next]_vars

\* runs in which the checkpoint lookup or the prune of a segment may fail
RunFailingAny == \E tip \in Tips, inp \in FailingInputs : Run(tip, inp)

NextErr ==
    \/ RunAny
    \/ RunFailingAny
    \/ SendFinishedExExHeightAny

SpecErr == Init /\ [][NextErr]_vars

\* runs in which any `?` of prune_segments, provider_rw or commit may fail,
\* with sidecars kept and partitions on disk
FailureInputs ==
    {[NoInterruption EXCEPT !.error = e] : e \in AllErrors}
    \cup {[NoInterruption EXCEPT !.error = e, !.provider_error = "commit"] :
             e \in AllErrors \cup {NoError}}
    \cup {[NoInterruption EXCEPT !.provider_error = "provider_rw"]}

RunWithFailureAny == \E tip \in Tips, inp \in FailureInputs : Run(tip, inp)

NextFail ==
    \/ RunAny
    \/ RunWithFailureAny
    \/ CreateSidecarsPartition(0)

SpecFail == InitWith({Config(1, MaxDeleteLimit, 1)}) /\ [][NextFail]_vars

SpecNeeded == InitNeeded /\ [][Next]_vars

\* every retention setting, nothing to delete from the database
InitSweep == InitWith({Config(1, 0, k) : k \in 0..MaxKept})

RunSweepAny == \E tip \in SweepTips : Run(tip, NoInterruption)
PruneAncientSidecarsAny == \E tip \in SweepTips : PruneAncientSidecars(tip, {})

NextSweep ==
    \/ RunSweepAny
    \/ PruneAncientSidecarsAny
    \/ CreateSidecarsPartitionAny
    \/ SendFinishedExExHeightAny

SpecSweep == InitSweep /\ [][NextSweep]_vars

\* sweeps during which fs::remove_file may fail: for the main file, or for
\* the .conf file
RemoveFailures == {{}, {"sf"}, {"conf"}}
PruneAncientSidecarsFailingAny ==
    \E tip \in DeepTips, failing \in RemoveFailures :
        PruneAncientSidecars(tip, failing)

CreateDeepSidecarsPartitionAny ==
    \E start \in {find_fixed_range(b).start : b \in DeepTips} :
        CreateSidecarsPartition(start)

NextSweepFail ==
    \/ PruneAncientSidecarsFailingAny
    \/ CreateDeepSidecarsPartitionAny

SpecSweepFail == InitWith({Config(1, 0, 1)}) /\ [][NextSweepFail]_vars

\* the static-file service over every chain, beside an idle pruner
InitSFS ==
    /\ min_block_interval = 1
    /\ delete_limit = 0
    /\ recent_sidecars_kept_blocks = 0
    /\ previous_tip_block_number = None
    /\ finished_exex_height = NoExExs
    /\ oldest_sidecars_height = None
    /\ checkpoints = [s \in PruneSegments |-> NoPruneCheckpoint]
    /\ table = [s \in PruneSegments |-> Tips]
    /\ files = {}
    /\ last = NoLast
    /\ InitService([Blocks -> 0..MaxTxs])

SendWriteExecutionDataAny ==
    \E k \in 0..MaxBatch, pruned \in BOOLEAN : SendWriteExecutionData(k, pruned)
SendRemoveBlocksAboveAny == \E n \in Blocks : SendRemoveBlocksAbove(n)

NextSFS ==
    \/ SendLogTransactions
    \/ SendWriteExecutionDataAny
    \/ SendRemoveBlocksAboveAny
    \/ RecvLogTransactions
    \/ CommitWriter
    \/ SendUpdateTransactionMeta
    \/ RecvWriteExecutionData
    \/ CommitReceipts
    \/ SendSaveBlocks
    \/ RecvRemoveBlocksAbove
    \/ Truncate
    \/ FinishRemoveBlocksAbove
    \/ Crash
    \/ FailStaticFileOperation

SpecSFS == InitSFS /\ [][NextSFS]_vars

\* the service starts on static files that hold block 0: an earlier
\* LogTransactions and WriteExecutionData of block 0 were handled
FirstBlockWritten ==
    With(log_transactions_appends([s \in StaticFileSegments |-> EmptySegment],
                                  LogTransactions(0, block_body_indices[0], 0)),
         LAMBDA logged :
             write_execution_data_appends(logged, logged,
                                          <<ExecutedBlock(0, FALSE)>>))

InitSFSWritten ==
    /\ min_block_interval = 1
    /\ delete_limit = 0
    /\ recent_sidecars_kept_blocks = 0
    /\ previous_tip_block_number = None
    /\ finished_exex_height = NoExExs
    /\ oldest_sidecars_height = None
    /\ checkpoints = [s \in PruneSegments |-> NoPruneCheckpoint]
    /\ table = [s \in PruneSegments |-> Tips]
    /\ files = {}
    /\ last = NoLast
    /\ block_body_indices \in [Blocks -> 1..MaxTxs]
    /\ incoming = << >>
    /\ static_files = FirstBlockWritten
    /\ writers = FirstBlockWritten
    /\ service = Idle
    /\ database_handle = << >>
    /\ database = NoStageCheckpoints
    /\ canonical = 1
    /\ executed = 1
    /\ sent = 0
    /\ lengths_before = Lengths(FirstBlockWritten)
    /\ completed = << >>
    /\ arrived = << >>
    /\ received = 0
    /\ replies = << >>
    /\ handles = 1
    /\ InitBuilder

SpecSFSWritten == InitSFSWritten /\ [][NextSFS]_vars

\* the static-file service next to the DB service, over the chain whose
\* blocks hold one transaction each
NextSFSDB ==
    \/ NextSFS
    \/ DatabaseServiceStep

SpecSFSDB == InitWith({Config(1, 0, 0)}) /\ [][NextSFSDB]_vars

\* the steps of the service thread, which runs on its own OS thread
ServiceStep ==
    \/ RecvLogTransactions
    \/ CommitWriter
    \/ SendUpdateTransactionMeta
    \/ RecvWriteExecutionData
    \/ CommitReceipts
    \/ SendSaveBlocks
    \/ RecvRemoveBlocksAbove
    \/ Truncate
    \/ FinishRemoveBlocksAbove
    \/ Stop

\* the service with handles that are cloned and dropped
NextSFSLive ==
    \/ SendLogTransactions
    \/ SendWriteExecutionDataAny
    \/ SendRemoveBlocksAboveAny
    \/ CloneHandle
    \/ DropHandle
    \/ ServiceStep
    \/ Crash
    \/ FailStaticFileOperation

\* the scheduler lets the service thread run whenever it can take a step
\* over the chain whose blocks hold one transaction each
SpecSFSLive ==
    InitWith({Config(1, 0, 0)}) /\ [][NextSFSLive]_vars /\ WF_vars(ServiceStep)

\* the builder is configured and asked to build, in any order
BuilderSegmentsAny == \E prune_modes \in PruneModes : BuilderSegments(prune_modes)

NextBuilder ==
    \/ BuilderSegmentsAny
    \/ Build

SpecBuilder == InitWith({Config(1, 0, 0)}) /\ [][NextBuilder]_vars

\* =================================================================== claims
\* values the claims are stated with
ExExReady == finished_exex_height.tag # "NotReady"
PreviousTip == IF previous_tip_block_number.some THEN previous_tip_block_number.val ELSE 0
Diff(a, b) == IF a >= b THEN a - b ELSE 0
CallSegment(c) == segments[c.index]
RECURSIVE SumPruned(_)
SumPruned(entries) ==
    IF entries = << >> THEN 0 ELSE Head(entries).pruned + SumPruned(Tail(entries))

\* C1: with the consumers ready, is_pruning_needed(tip) is true exactly when
\* (adjusted tip saturating-minus previous tip) >= min_block_interval, the
\* adjusted tip being the tip itself without consumers and the finished
\* height with them; after a revert (adjusted tip below the previous tip) and
\* an interval of at least 1 it is false.
C1_IsPruningNeededThreshold ==
    (last.op = "is_pruning_needed" /\ ExExReady) =>
        LET adjusted == IF finished_exex_height.tag = "Height"
                        THEN finished_exex_height.h ELSE last.tip
        IN /\ last.needed = (Diff(adjusted, PreviousTip) >= min_block_interval)
           /\ (adjusted < PreviousTip /\ min_block_interval >= 1) => ~last.needed

C1_Witness ==
    /\ last.op = "is_pruning_needed"
    /\ finished_exex_height.tag = "NoExExs"
    /\ previous_tip_block_number.some
    /\ last.tip < previous_tip_block_number.val
    /\ min_block_interval >= 1
    /\ ~last.needed

\* C2: while the channel holds NotReady, is_pruning_needed is false for every
\* tip and run returns Finished with an empty output: no segment is pruned,
\* no checkpoint, table, sidecar file or gauge changes, no event is emitted,
\* the sweep is not entered and previous_tip_block_number stays.
C2_NotReadyNoWork ==
    [][finished_exex_height.tag = "NotReady" =>
         /\ last'.op = "is_pruning_needed" => ~last'.needed
         /\ last'.op = "run" =>
              /\ last'.output = EmptyOutput
              /\ last'.calls = << >>
              /\ last'.events = << >>
              /\ last'.swept = {}
              /\ ~last'.sweep_tip.some
              /\ UNCHANGED <<checkpoints, table, files, oldest_sidecars_height,
                             previous_tip_block_number>>]_vars

C2_Witness ==
    /\ last.op = "run"
    /\ finished_exex_height.tag = "NotReady"
    /\ previous_tip_block_number.some
    /\ last.tip > previous_tip_block_number.val
    /\ \E s \in PruneSegments : table[s] # {}

\* what C3 says of an effective tip eff, when the channel holds Height(h)
EffectiveTipIs(eff) ==
    /\ last.op = "is_pruning_needed" =>
          last.needed = (Diff(eff, PreviousTip) >= min_block_interval)
    /\ last.op = "run" =>
          /\ \A k \in 1..Len(last.calls) :
                LET c == last.calls[k]
                    target == prune_target_block(CallSegment(c).mode.val, eff)
                IN target.some /\ c.to_block = target.val
          /\ \A k \in 1..Len(last.events) : last.events[k].tip_block_number = eff
          /\ last.sweep_tip.some => last.sweep_tip.val = eff

\* C3 as stated: with Height(h) the effective tip is min(h, tip).
C3_EffectiveTipIsMin ==
    finished_exex_height.tag = "Height" =>
        EffectiveTipIs(Min(finished_exex_height.h, last.tip))

\* C3 amended: with Height(h) the effective tip used by is_pruning_needed,
\* by every segment's to_block and by the sweep is h itself, also when h is
\* above the tip.
C3_EffectiveTipIsHeight ==
    finished_exex_height.tag = "Height" => EffectiveTipIs(finished_exex_height.h)

C3_Witness ==
    /\ last.op = "run"
    /\ finished_exex_height.tag = "Height"
    /\ finished_exex_height.h > last.tip
    /\ Len(last.calls) > 0
    /\ last.sweep_tip = Some(finished_exex_height.h)
    /\ \E k \in 1..Len(last.calls) : last.calls[k].to_block >= last.tip

\* C4: a run started with Height(h) invokes no segment's prune with a
\* to_block above h and deletes no entry of a block above h.
C4_NoPruneAboveFinishedHeight ==
    (last.op = "run" /\ finished_exex_height.tag = "Height") =>
        \A k \in 1..Len(last.calls) :
            /\ last.calls[k].to_block <= finished_exex_height.h
            /\ \A b \in last.calls[k].deleted : b <= finished_exex_height.h

C4_Witness ==
    /\ last.op = "run"
    /\ finished_exex_height.tag = "Height"
    /\ finished_exex_height.h < last.tip
    /\ \E k \in 1..Len(last.calls) : last.calls[k].deleted # {}

\* C5: a stored checkpoint is never removed and its highest pruned block
\* never decreases, whatever the tips of later runs.
C5_CheckpointMonotonic ==
    [][\A s \in PruneSegments :
          checkpoints[s].some =>
              /\ checkpoints'[s].some
              /\ checkpoints'[s].block_number >= checkpoints[s].block_number]_vars

\* a run whose target for a segment lies below that segment's checkpoint
C5_Witness ==
    /\ last.op = "run"
    /\ \E k \in 1..Len(last.calls) :
          LET cp == checkpoints[CallSegment(last.calls[k]).segment]
          IN cp.some /\ cp.block_number > last.calls[k].to_block

\* C6: in every run the pruned counts of the per-segment outputs sum to at
\* most delete_limit.
C6_SumPrunedWithinLimit ==
    last.op = "run" => SumPruned(last.output.segments) <= delete_limit

C6_Witness ==
    /\ last.op = "run"
    /\ Len(last.output.segments) >= 2
    /\ \A k \in 1..Len(last.output.segments) : last.output.segments[k].pruned > 0
    /\ SumPruned(last.output.segments) = delete_limit

\* the adjusted tip of the run or query that the step performs
AdjustedOfStep ==
    IF finished_exex_height.tag = "Height" THEN finished_exex_height.h ELSE last'.tip

HeaderVisible(number) ==
    \E r \in Range(static_files.Headers.rows) : r.block = number
SidecarsVisible(number) ==
    \E r \in Range(static_files.Sidecars.rows) : r.block = number
TransactionsVisible(action) ==
    /\ static_files.Transactions.block_end.some
    /\ static_files.Transactions.block_end.val >= action.number
    /\ \A t \in action.start_tx_number..(action.start_tx_number + action.txs - 1) :
          Row(action.number, t) \in Range(static_files.Transactions.rows)
InLogTransactions ==
    /\ service.action.op = "LogTransactions"
    /\ service.pc \in {"log_transactions", "crashed"}

\* C8: at every point of a LogTransactions action, a crash between two of its
\* commits included, the block's header is committed only if all of the
\* block's transactions are committed, and its sidecars only if its header
\* is: the commits go Transactions, Headers, Sidecars.
C8_HeaderVisibleOnlyWithTransactions ==
    InLogTransactions =>
        /\ HeaderVisible(service.action.number) => TransactionsVisible(service.action)
        /\ SidecarsVisible(service.action.number) => HeaderVisible(service.action.number)

\* a crash after the first commit of a block with transactions
C8_Witness ==
    /\ service.action.op = "LogTransactions"
    /\ service.pc = "crashed"
    /\ service.step = 1
    /\ service.action.txs >= 2
    /\ TransactionsVisible(service.action)
    /\ ~HeaderVisible(service.action.number)

\* the rows a step takes off the end of a segment
RemovedRows(segment) ==
    {static_files[segment].rows[i] :
        i \in (Len(static_files'[segment].rows) + 1)..Len(static_files[segment].rows)}

\* C9: every entry that RemoveBlocksAbove(n) removes from Headers,
\* Transactions, Receipts or Sidecars belongs to a block above n, whatever the
\* number of transactions in block n.
C9_RemovesOnlyBlocksAbove ==
    [][service.pc = "remove_blocks_above" =>
          \A segment \in StaticFileSegments :
              \A r \in RemovedRows(segment) : r.block > service.action.block_num]_vars

\* RemoveBlocksAbove(n) has truncated Transactions and a transaction of
\* block n, which has two, is gone
C9_Witness ==
    /\ service.pc = "remove_blocks_above"
    /\ service.step >= 2
    /\ block_body_indices[service.action.block_num] = 2
    /\ lengths_before.Transactions.entries =
           first_tx_num(service.action.block_num) + 2
    /\ Len(static_files.Transactions.rows) < lengths_before.Transactions.entries

\* C10: LogTransactions(B) directly followed by RemoveBlocksAbove(B.number - 1)
\* leaves Headers, Transactions and Sidecars with the block count and the
\* entry count they had before the append.
C10_LogThenRemoveRestoresLengths ==
    (/\ service.pc = "idle"
     /\ Len(completed) = 2
     /\ completed[1].action.op = "LogTransactions"
     /\ completed[2].action.op = "RemoveBlocksAbove"
     /\ completed[2].action.block_num = completed[1].action.number - 1) =>
        \A segment \in {"Headers", "Transactions", "Sidecars"} :
            Lengths(static_files)[segment] = completed[1].before[segment]

\* block 1 with one transaction is logged after an empty block 0 and
\* RemoveBlocksAbove(0) has completed: the transaction is still stored
C10_Witness ==
    /\ service.pc = "idle"
    /\ Len(completed) = 2
    /\ completed[1].action = LogTransactions(1, 1, 0)
    /\ completed[2].action = RemoveBlocksAbove(0)
    /\ completed[1].before.Transactions.entries = 0
    /\ Len(static_files.Transactions.rows) = 1

IsPrefix(a, b) == Len(a) <= Len(b) /\ SubSeq(b, 1, Len(a)) = a

\* C11: the service receives the actions one at a time and in arrival order:
\* it takes the k-th action sent only when it is idle and has received the
\* first k - 1, and while it handles a LogTransactions or WriteExecutionData
\* each segment only grows at its end, so rows lie in arrival order.
C11_ActionsHandledInArrivalOrder ==
    [][/\ received' # received =>
            /\ received' = received + 1
            /\ service.pc = "idle"
            /\ received' <= Len(arrived)
            /\ Head(incoming) = arrived[received']
            /\ service'.pc # "idle" => service'.action = arrived[received']
       /\ service.pc \in {"log_transactions", "write_execution_data"} =>
            \A segment \in StaticFileSegments :
                IsPrefix(static_files[segment].rows, static_files'[segment].rows)]_vars

\* the second of three actions is being handled while the third waits
C11_Witness ==
    /\ Len(arrived) = 3
    /\ received = 2
    /\ Len(incoming) = 1
    /\ service.pc = "log_transactions"
    /\ service.step = 2
    /\ service.action = arrived[2]
    /\ arrived[1] # arrived[2]
    /\ incoming[1] = arrived[3]
    /\ arrived[3].op = "RemoveBlocksAbove"

\* ------------------------------------------------ ancient-sidecar sweep claims
Swept == last.op \in {"run", "prune_ancient_sidecars"} /\ last.sweep_tip.some
SweepTarget == saturating_sub(last.sweep_tip.val, recent_sidecars_kept_blocks)

\* C12: a sweep run immediately after a sweep with the same tip leaves the
\* files on disk as the first sweep left them.
C12_SweepIdempotent ==
    [][(/\ last'.op \in {"run", "prune_ancient_sidecars"}
        /\ SweptJustBefore(last'.sweep_tip)) =>
            /\ files' = files
            /\ last'.swept = {}]_vars

\* a second sweep with the same tip, after a first one that deleted files
C12_Witness ==
    /\ Swept
    /\ last.again
    /\ last.swept = {}
    /\ recent_sidecars_kept_blocks > 0
    /\ oldest_sidecars_height.some
    /\ find_fixed_range(SweepTarget).start = oldest_sidecars_height.val
    /\ files # {}

\* C13: a sweep deletes only files of partitions whose fixed range lies
\* strictly below the fixed range that holds target = tip saturating-minus
\* recent_sidecars_kept_blocks; the partition of target and the newer ones
\* keep their files.
C13_SweepDeletesOnlyBelowTarget ==
    [][(/\ last'.op \in {"run", "prune_ancient_sidecars"}
        /\ last'.sweep_tip.some) =>
          LET target == saturating_sub(last'.sweep_tip.val, recent_sidecars_kept_blocks)
          IN /\ \A f \in files \ files' :
                   f[1] + BlocksPerFile - 1 < find_fixed_range(target).start
             /\ \A start \in last'.swept :
                   start + BlocksPerFile - 1 < find_fixed_range(target).start
             /\ files' \subseteq files]_vars

\* a sweep that deleted the partition right below the target's, which stays
C13_Witness ==
    /\ Swept
    /\ find_fixed_range(SweepTarget).start - BlocksPerFile \in last.swept
    /\ PartitionFiles(find_fixed_range(SweepTarget).start) \subseteq files

\* C14: after a sweep that deleted one or more partitions the gauge
\* oldest_sidecars_height is the first block of the oldest partition the
\* sweep left, the one right above the deleted partitions.
C14_GaugeIsOldestSurvivingPartition ==
    (Swept /\ last.swept # {}) =>
        /\ oldest_sidecars_height = Some(SetMax(last.swept) + BlocksPerFile)
        /\ oldest_sidecars_height.val \notin last.swept

\* a sweep deleted two consecutive partitions
C14_Witness ==
    /\ Swept
    /\ Cardinality(last.swept) = 2
    /\ oldest_sidecars_height = Some(SetMax(last.swept))

\* ------------------------------------------------------------------ C15
\* the segments that have a prune target at the tip
WithTarget(tip) ==
    {i \in 1..NSeg : /\ segments[i].mode.some
                     /\ prune_target_block(segments[i].mode.val, tip).some}

\* the entries of segment i a run at the tip may delete: the stored entries
\* from the block after the checkpoint up to the target
Eligible(i, tip) ==
    LET range == get_next_block_range(checkpoints[segments[i].segment],
                                      prune_target_block(segments[i].mode.val, tip).val)
    IN IF range.some
       THEN (range.val.from .. range.val.to) \cap table[segments[i].segment]
       ELSE {}

\* the run that just completed pruned at the tip, without a deadline passing
\* and without a segment stopping on its own
RanUninterrupted(tip) ==
    /\ last'.op = "run"
    /\ last'.inp = NoInterruption
    /\ last'.events # << >>
    /\ last'.events[1] = Started(tip)

\* C15: in a run with delete_limit = L whose only segment with a prune target
\* has more than L eligible entries, that segment's output reports pruned = L
\* with progress HasMoreData(DeletedEntriesLimitReached), and the overall
\* progress of the run is HasMoreData(DeletedEntriesLimitReached) too.
C15_LimitedRunReportsHasMoreData ==
    [][\A tip \in Tips, i \in 1..NSeg :
          (/\ RanUninterrupted(tip)
           /\ WithTarget(tip) = {i}
           /\ Cardinality(Eligible(i, tip)) > delete_limit) =>
              /\ \E k \in 1..Len(last'.output.segments) :
                    /\ last'.output.segments[k].segment = segments[i].segment
                    /\ last'.output.segments[k].pruned = delete_limit
                    /\ last'.output.segments[k].progress =
                          HasMoreData("DeletedEntriesLimitReached")
              /\ last'.output.progress = HasMoreData("DeletedEntriesLimitReached")]_vars

\* a run with delete_limit 0 has ended whose only segment with a target still
\* holds an entry it may delete: no segment was called and the run reports
\* Finished
C15_Witness ==
    /\ last.op = "run"
    /\ last.inp = NoInterruption
    /\ delete_limit = 0
    /\ \E tip \in Tips, i \in 1..NSeg :
          /\ last.events # << >>
          /\ last.events[1] = Started(tip)
          /\ WithTarget(tip) = {i}
          /\ Eligible(i, tip) # {}
    /\ last.output = EmptyOutput

\* ------------------------------------------------------------------ C16
\* the k-th action sent has been handled to the end without a failure
HandledOk(k) ==
    /\ k <= received
    /\ k = received => service.pc \in {"idle", "stopped"}

\* C16: every RemoveBlocksAbove(block_num, reply) action that completes
\* successfully has signalled its reply channel with (): the requester
\* observes completion, not a closed channel.
C16_RemoveBlocksAboveSignalsReply ==
    \A k \in 1..Len(arrived) :
        (arrived[k].op = "RemoveBlocksAbove" /\ HandledOk(k)) =>
            replies[k] = "signalled"

\* a RemoveBlocksAbove has just completed: the headers above block_num are
\* gone, and the reply sender was destroyed without a send
C16_Witness ==
    /\ received > 0
    /\ arrived[received].op = "RemoveBlocksAbove"
    /\ HandledOk(received)
    /\ lengths_before.Headers.blocks > arrived[received].block_num + 1
    /\ BlockCount(static_files.Headers) = arrived[received].block_num + 1
    /\ replies[received] = "dropped"

\* ------------------------------------------------------------------ C18
\* C18: when a static-file operation fails while the service handles an
\* action, the loop terminates: the failing step sends nothing to the DB
\* service and ends the thread, and from then on the thread takes no step:
\* the action is not retried, no DatabaseAction is sent, no queued action is
\* received, and the static files stay as they are.
C18_FailureTerminatesLoop ==
    [][/\ (service'.failed /\ ~service.failed) =>
             /\ service'.pc = "panicked"
             /\ service'.action = service.action
             /\ database_handle' = database_handle
             /\ received' = received
       /\ service.failed =>
             /\ service' = service
             /\ database_handle' = database_handle
             /\ received' = received
             /\ static_files' = static_files
             /\ incoming' = incoming]_vars

\* a LogTransactions failed after its first commit while another action was
\* waiting: the thread is gone, nothing was sent to the DB service for it,
\* and the waiting action was never received
C18_Witness ==
    /\ service.failed
    /\ service.pc = "panicked"
    /\ service.action.op = "LogTransactions"
    /\ service.step > 0
    /\ received < Len(arrived)
    /\ \A k \in 1..Len(database_handle) :
           ~(/\ database_handle[k].op = "UpdateTransactionMeta"
             /\ database_handle[k].number = service.action.number)

\* ------------------------------------------------------------------ C19
\* the service thread died in a handler
Faulted == service.pc \in {"panicked", "crashed"}

\* C19: once every sender handle has been dropped, the service loop
\* eventually ends by returning from run, unless a handler dies first; and
\* the loop ends only with every handle dropped and every action that was
\* enqueued received and handled.
C19_DroppedSendersStopLoop ==
    /\ (<>Faulted) \/ ((handles = 0) ~> (service.pc = "stopped"))
    /\ [](service.pc = "stopped" =>
             /\ handles = 0
             /\ incoming = << >>
             /\ received = Len(arrived))

\* the loop has ended with every handle dropped after two or more actions
\* were sent; the last action handled is the last one that was enqueued
C19_Witness ==
    /\ service.pc = "stopped"
    /\ handles = 0
    /\ Len(arrived) >= 2
    /\ received = Len(arrived)
    /\ Len(completed) = 2
    /\ completed[2].action = arrived[Len(arrived)]

\* ------------------------------------------------------------------ C17
\* the run that just returned called prune of a segment with this id, and
\* the call returned success with a checkpoint
PruneReturnedCheckpoint(id) ==
    \E k \in 1..Len(last'.calls) :
        /\ CallSegment(last'.calls[k]).segment = id
        /\ last'.calls[k].checkpoint.some

\* C17: within a run a segment's checkpoint is written only after the
\* segment's prune call returned success with a checkpoint; and when the
\* checkpoint lookup or the prune of a segment returns an error, the run
\* aborts with that error (no later segment is called, no Finished event, the
\* previous tip stays) and that segment's stored checkpoint is the one from
\* before the run.
C17_CheckpointOnlyAfterSuccessfulPrune ==
    [][last'.op = "run" =>
          /\ \A id \in PruneSegments :
                checkpoints'[id] # checkpoints[id] => PruneReturnedCheckpoint(id)
          /\ last'.error # "-" =>
                /\ last'.error = last'.inp.error.call
                /\ checkpoints'[segments[last'.inp.error.at].segment] =
                       checkpoints[segments[last'.inp.error.at].segment]
                /\ \A k \in 1..Len(last'.calls) :
                       last'.calls[k].index < last'.inp.error.at
                /\ last'.events = <<Started(last'.events[1].tip_block_number)>>
                /\ previous_tip_block_number' = previous_tip_block_number]_vars

\* a run was aborted by the error of the prune of its second targeted
\* segment, which still has entries to prune, after the first segment had
\* pruned and saved its checkpoint
C17_Witness ==
    /\ last.op = "run"
    /\ last.error = "prune"
    /\ Len(last.calls) = 1
    /\ last.calls[1].deleted # {}
    /\ last.calls[1].checkpoint.some
    /\ checkpoints[CallSegment(last.calls[1]).segment].block_number =
           last.calls[1].checkpoint.block_number
    /\ Eligible(last.inp.error.at, last.events[1].tip_block_number) # {}

\* ------------------------------------------------------------------ C20
\* the order of the segment types
SegmentOrder ==
    <<"StaticFileHeaders", "StaticFileTransactions", "StaticFileReceipts",
      "StaticFileSidecars", "AccountHistory", "StorageHistory", "UserReceipts",
      "ReceiptsByLogs", "TransactionLookup", "SenderRecovery">>

\* whether the configuration asks for a segment of the type
Configured(type, prune_modes) ==
    CASE type = "AccountHistory" -> prune_modes.account_history.some
      [] type = "StorageHistory" -> prune_modes.storage_history.some
      [] type = "UserReceipts" -> prune_modes.receipts.some
      [] type = "ReceiptsByLogs" -> prune_modes.receipts_log_filter # {}
      [] type = "TransactionLookup" -> prune_modes.transaction_lookup.some
      [] type = "SenderRecovery" -> prune_modes.sender_recovery.some
      [] OTHER -> TRUE

\* C20: for every PruneModes value the segments built are exactly the list
\* static-file Headers, Transactions, Receipts, Sidecars, AccountHistory,
\* StorageHistory, UserReceipts, ReceiptsByLogs, TransactionLookup,
\* SenderRecovery with the types the configuration does not ask for left out:
\* the four static-file segments always, ReceiptsByLogs iff the log filter is
\* not empty, and each other type iff its mode is set.
C20_SegmentsInFixedOrder ==
    \A k \in 1..Len(built) :
        [i \in 1..Len(built[k].segments) |-> built[k].segments[i].type] =
            SelectSeq(SegmentOrder,
                      LAMBDA type : Configured(type, built[k].prune_modes))

\* a pruner was built with receipts, the log filter and sender recovery
\* configured and the history and lookup modes unset: its segments are the
\* four static-file ones, UserReceipts, ReceiptsByLogs and SenderRecovery
C20_Witness ==
    /\ built # << >>
    /\ built[1].prune_modes.receipts.some
    /\ built[1].prune_modes.receipts_log_filter # {}
    /\ built[1].prune_modes.sender_recovery.some
    /\ ~built[1].prune_modes.account_history.some
    /\ ~built[1].prune_modes.storage_history.some
    /\ ~built[1].prune_modes.transaction_lookup.some
    /\ Len(built[1].segments) = 7
    /\ built[1].segments[5].type = "UserReceipts"
    /\ built[1].segments[7].type = "SenderRecovery"

\* ------------------------------------------------------------------ C21
\* C21: if any segment processed in a run reports HasMoreData, the overall
\* progress of the run is HasMoreData, also when a segment iterated after it
\* reports Finished.
C21_HasMoreDataPropagates ==
    last.op = "run" =>
        ((\E k \in 1..Len(last.output.segments) :
              last.output.segments[k].progress.tag = "HasMoreData")
            => last.output.progress.tag = "HasMoreData")

\* a run in which a segment stopped with HasMoreData while budget remained,
\* and a segment iterated after it pruned and reported Finished
C21_Witness ==
    /\ last.op = "run"
    /\ last.error = "-"
    /\ Len(last.output.segments) = 2
    /\ last.output.segments[1].progress.tag = "HasMoreData"
    /\ last.output.segments[1].pruned < delete_limit
    /\ last.output.segments[2].progress = Finished
    /\ last.output.segments[2].pruned > 0

\* ------------------------------------------------------------------ C22
\* the loop positions whose segment was processed in the last run
Processed == {last.calls[k].index : k \in 1..Len(last.calls)}

\* the last run passed the early exits, returned Ok, and left a segment with
\* a prune target unprocessed: the loop ended at the limiter check
StoppedByLimiter ==
    /\ last.op = "run"
    /\ last.error = "-"
    /\ last.events # << >>
    /\ WithTarget(last.events[1].tip_block_number) \ Processed # {}

\* C22: a run that stops iterating because the limiter is reached (budget
\* used up, delete_limit = 0 included, or deadline passed) while a segment
\* with a prune target has not been processed returns Ok with overall
\* progress HasMoreData(DeletedEntriesLimitReached) or
\* HasMoreData(TimeLimitReached).
C22_LimiterStopReportsHasMoreData ==
    StoppedByLimiter =>
        last.output.progress \in {HasMoreData("DeletedEntriesLimitReached"),
                                  HasMoreData("TimeLimitReached")}

\* the first segment pruned everything up to its target and used up the
\* budget with it; the loop ended before the next segment with a target, and
\* the run reports Finished
C22_Witness ==
    /\ StoppedByLimiter
    /\ last.inp = NoInterruption
    /\ delete_limit > 0
    /\ Len(last.calls) = 1
    /\ Cardinality(last.calls[1].deleted) = delete_limit
    /\ last.output.segments[1].progress = Finished
    /\ last.output.progress = Finished

\* ------------------------------------------------------------------ C23
\* the step is one of the static-file service thread
StaticFileServiceActs ==
    \/ service' # service
    \/ received' # received
    \/ static_files' # static_files
    \/ writers' # writers
    \/ database_handle' # database_handle

\* C23: the static-file service never changes database state: a step of its
\* thread leaves the stage checkpoints, the prune checkpoints and the tables
\* as they are and sends at most one message to the DB service, an
\* UpdateTransactionMeta or a SaveBlocks; the stage checkpoints advance only
\* when the DB service takes such a message.
C23_ServiceWritesNoDatabaseState ==
    [][/\ StaticFileServiceActs =>
             /\ database' = database
             /\ checkpoints' = checkpoints
             /\ table' = table
             /\ block_body_indices' = block_body_indices
             /\ \/ database_handle' = database_handle
                \/ /\ Len(database_handle') = Len(database_handle) + 1
                   /\ SubSeq(database_handle', 1, Len(database_handle)) =
                          database_handle
                   /\ database_handle'[Len(database_handle')].op \in
                          {"UpdateTransactionMeta", "SaveBlocks"}
       /\ database' # database =>
             /\ database.handled < Len(database_handle)
             /\ database'.handled = database.handled + 1
             /\ database_handle' = database_handle]_vars

\* the service has handled a LogTransactions, a WriteExecutionData and a
\* RemoveBlocksAbove; the DB service has taken both messages, and the stage
\* checkpoints are the ones those messages carry
C23_Witness ==
    /\ service.pc = "idle"
    /\ received = 3
    /\ \E k \in 1..3 : arrived[k].op = "RemoveBlocksAbove"
    /\ Len(database_handle) = 2
    /\ database.handled = 2
    /\ database.headers.some
    /\ database.execution.some

C24_WitnessFailed ==
    /\ last.op = "run"
    /\ last.error # "-"
    /\ last.events # << >>
    /\ previous_tip_block_number # Some(last.events[1].tip_block_number)

\* ------------------------------------------------------------------ C25
\* C25: a run whose adjusted tip is 0 sets previous_tip_block_number to 0 and
\* returns Finished with no per-segment output; it emits no event, calls no
\* segment, changes no checkpoint, table or file and does not sweep.
C25_GenesisRunDoesNothing ==
    [][(/\ last'.op = "run"
        /\ adjust_tip_block_number_to_finished_exex_height(last'.tip) = Some(0)) =>
          /\ previous_tip_block_number' = Some(0)
          /\ last'.error = "-"
          /\ last'.output = EmptyOutput
          /\ last'.events = << >>
          /\ last'.calls = << >>
          /\ last'.sweep_tip = None
          /\ last'.swept = {}
          /\ checkpoints' = checkpoints
          /\ table' = table
          /\ files' = files
          /\ oldest_sidecars_height' = oldest_sidecars_height]_vars

\* a run was given a tip above 0 while the ExExs had finished block 0 only,
\* and at the tip it was given a segment has entries it may prune
C25_Witness ==
    /\ last.op = "run"
    /\ last.tip > 0
    /\ finished_exex_height = Height(0)
    /\ previous_tip_block_number = Some(0)
    /\ last.events = << >>
    /\ \E i \in WithTarget(last.tip) : Eligible(i, last.tip) # {}

\* ------------------------------------------------------------------ C26
\* C26: a run that passes the NotReady and the genesis exit and returns Ok
\* emits exactly Started and then Finished, both with the adjusted tip; a run
\* that fails in the segment iteration has emitted Started before it failed
\* and emits no Finished; a run that takes an early exit emits
\* nothing.  The events of the Ok runs, one after the other, therefore
\* alternate Started, Finished.
C26_StartedThenFinished ==
    [][last'.op = "run" =>
         LET adjusted == adjust_tip_block_number_to_finished_exex_height(last'.tip)
         IN IF ~adjusted.some \/ adjusted.val = 0
            THEN last'.events = << >> /\ last'.calls = << >>
            ELSE IF last'.error = "-"
            THEN /\ last'.events =
                       <<[event |-> "Started", tip_block_number |-> adjusted.val],
                         [event |-> "Finished", tip_block_number |-> adjusted.val]>>
                 /\ last'.sweep_tip = adjusted
                 /\ previous_tip_block_number' = adjusted
            ELSE /\ last'.events =
                       <<[event |-> "Started", tip_block_number |-> adjusted.val]>>
                 /\ last'.sweep_tip = None]_vars

\* an Ok run with the ExExs behind the tip it was given: a segment deleted
\* entries and both events carry the finished height
C26_Witness ==
    /\ last.op = "run"
    /\ last.error = "-"
    /\ finished_exex_height.tag = "Height"
    /\ finished_exex_height.h > 0
    /\ finished_exex_height.h < last.tip
    /\ \E k \in 1..Len(last.calls) : last.calls[k].deleted # {}
    /\ Len(last.events) = 2
    /\ last.events[1].event = "Started"
    /\ last.events[2].event = "Finished"
    /\ last.events[2].tip_block_number = finished_exex_height.h

\* ------------------------------------------------------------------ C27
\* the segments with a prune target in a run with this adjusted tip
RunTargets(adjusted) ==
    IF adjusted.some /\ adjusted.val > 0 THEN WithTarget(adjusted.val) ELSE {}

\* what the segments before loop position i returned as pruned in run l
PrunedBefore(l, i) ==
    SumPruned(SubSeq(l.output.segments, 1,
                     Cardinality({k \in 1..Len(l.calls) : l.calls[k].index < i})))

\* the limiter of run l is reached when the loop comes to position i
LimiterTripped(l, i) ==
    i >= l.inp.deadline \/ PrunedBefore(l, i) >= delete_limit

\* C27: the per-segment output of a run lists exactly the segments that have
\* a prune target and were reached before the limiter tripped, once each and
\* in the order of the segment list; for a segment without a mode or without
\* a target the run reads no checkpoint, calls no prune, writes no checkpoint
\* and adds no output entry.
C27_OutputListsProcessedSegments ==
    [][last'.op = "run" =>
         LET l == last'
             targets ==
                 RunTargets(adjust_tip_block_number_to_finished_exex_height(l.tip))
         IN /\ \A k \in 1..(Len(l.calls) - 1) :
                   l.calls[k].index < l.calls[k + 1].index
            /\ l.error = "-" =>
                  /\ Len(l.output.segments) = Len(l.calls)
                  /\ \A k \in 1..Len(l.calls) :
                        l.output.segments[k].segment =
                            segments[l.calls[k].index].segment
                  /\ {l.calls[k].index : k \in 1..Len(l.calls)} =
                        {i \in targets : ~LimiterTripped(l, i)}
            /\ l.error # "-" => l.inp.error.at \in targets
            /\ \A i \in (1..NSeg) \ targets :
                  /\ \A k \in 1..Len(l.calls) : l.calls[k].index # i
                  /\ \A k \in 1..Len(l.output.segments) :
                        l.output.segments[k].segment # segments[i].segment
                  /\ checkpoints'[segments[i].segment] =
                        checkpoints[segments[i].segment]
                  /\ table'[segments[i].segment] = table[segments[i].segment]]_vars

\* the first and the third segment were processed, the second, whose mode is
\* None, was skipped although it has entries, and the first pruned nothing
C27_Witness ==
    /\ last.op = "run"
    /\ last.error = "-"
    /\ ~segments[2].mode.some
    /\ table[segments[2].segment] # {}
    /\ Len(last.output.segments) = 2
    /\ last.output.segments[1].segment = segments[1].segment
    /\ last.output.segments[1].pruned = 0
    /\ last.output.segments[2].segment = segments[3].segment
    /\ last.output.segments[2].pruned > 0

\* the first segment has a mode but no target at the tip of the run and was
\* skipped; the third was processed
C27_WitnessNoTarget ==
    /\ last.op = "run"
    /\ last.error = "-"
    /\ last.events # << >>
    /\ segments[1].mode.some
    /\ 1 \notin WithTarget(last.events[1].tip_block_number)
    /\ Len(last.output.segments) = 1
    /\ last.output.segments[1].segment = segments[3].segment

\* ------------------------------------------------------------------ C28
\* C28: every run starts with a limiter that has counted nothing and whose
\* limit is delete_limit; the snapshot given to the k-th processed segment
\* has that limit and has counted the sum of the pruned counts the segments
\* processed before it in the run returned, nothing else.
C28_SnapshotCountsEarlierSegments ==
    (last.op = "run" /\ last.error = "-") =>
        \A k \in 1..Len(last.calls) :
            /\ last.calls[k].limit = delete_limit
            /\ last.calls[k].limiter =
                   SumPruned(SubSeq(last.output.segments, 1, k - 1))

\* a run after an earlier run that had deleted entries: its first segment
\* got a snapshot that had counted nothing and pruned something, the second
\* got a snapshot that had counted what the first returned
C28_Witness ==
    /\ last.op = "run"
    /\ last.error = "-"
    /\ Len(last.calls) = 2
    /\ last.calls[1].limiter = 0
    /\ last.output.segments[1].pruned > 0
    /\ last.calls[2].limiter = last.output.segments[1].pruned
    /\ last.output.segments[2].pruned > 0
    /\ \E k \in 1..2 :
          table[segments[last.calls[k].index].segment] \cup last.calls[k].deleted
              # Tips

\* ------------------------------------------------------------------ C29
\* C29: no segment's prune is invoked once the limiter of the run is reached:
\* every prune call of a run, failing runs included, was made with fewer
\* deleted entries counted than delete_limit and before the deadline passed.
C29_NoPruneAfterLimitReached ==
    last.op = "run" =>
        \A k \in 1..Len(last.calls) :
            /\ last.calls[k].limiter < delete_limit
            /\ last.calls[k].index < last.inp.deadline

\* the first segment used up the budget, and a later segment that has a
\* target and entries to prune was not called
C29_Witness ==
    /\ last.op = "run"
    /\ last.error = "-"
    /\ last.inp = NoInterruption
    /\ delete_limit > 0
    /\ Len(last.calls) = 1
    /\ Cardinality(last.calls[1].deleted) = delete_limit
    /\ \E i \in WithTarget(last.events[1].tip_block_number) :
          /\ i > last.calls[1].index
          /\ Eligible(i, last.events[1].tip_block_number) # {}

\* the deadline passed after the first segment, and a later segment that has
\* a target and entries to prune was not called
C29_WitnessDeadline ==
    /\ last.op = "run"
    /\ last.error = "-"
    /\ Len(last.calls) = 1
    /\ Cardinality(last.calls[1].deleted) < delete_limit
    /\ last.inp.deadline <= NSeg
    /\ \E i \in WithTarget(last.events[1].tip_block_number) :
          /\ i >= last.inp.deadline
          /\ Eligible(i, last.events[1].tip_block_number) # {}

\* ------------------------------------------------------------------ C30
\* C30: with recent_sidecars_kept_blocks = 0, the default of the builder, no
\* run and no call of prune_ancient_sidecars deletes a file of a Sidecars
\* partition or moves the oldest-sidecars gauge, whatever the tip and
\* whatever partitions are on disk.
C30_ZeroKeptBlocksDisablesSweep ==
    [][(/\ recent_sidecars_kept_blocks = 0
        /\ last'.op \in {"run", "prune_ancient_sidecars"}) =>
          /\ files' = files
          /\ oldest_sidecars_height' = oldest_sidecars_height
          /\ last'.swept = {}]_vars

\* with recent_sidecars_kept_blocks = 0 a run came to the sweep while the
\* partition of the range just below the range of its tip was on disk
C30_Witness ==
    /\ recent_sidecars_kept_blocks = 0
    /\ last.op = "run"
    /\ last.error = "-"
    /\ last.sweep_tip.some
    /\ find_fixed_range(last.sweep_tip.val).start > 0
    /\ PartitionFiles(find_fixed_range(last.sweep_tip.val).start - BlocksPerFile)
           \subseteq files

\* ------------------------------------------------------------------ C31
\* the partitions below the one that holds the target of a sweep at this tip
BelowTarget(tip) ==
    {start \in 0..tip :
        /\ start % BlocksPerFile = 0
        /\ start < find_fixed_range(
                       saturating_sub(tip, recent_sidecars_kept_blocks)).start}

\* of these, the ones above the first whose main file is missing, walking down
AboveGap(tip) ==
    {start \in BelowTarget(tip) :
        \A other \in BelowTarget(tip) :
            other >= start => <<other, "sf">> \in files}

\* C31: a sweep during which no removal fails walks down from the partition
\* just below the one that holds the target and stops at the first partition
\* whose file is missing: it deletes every partition above that gap, looks
\* at the partition of the gap and at nothing older, and leaves the older
\* partitions on disk; a missing file is no error.
C31_SweepStopsAtFirstGap ==
    [][(/\ last'.op \in {"run", "prune_ancient_sidecars"}
        /\ last'.sweep_tip.some
        /\ last'.inp.remove_fails = {}
        /\ recent_sidecars_kept_blocks > 0) =>
          LET tip == last'.sweep_tip.val
              gap == BelowTarget(tip) \ AboveGap(tip)
          IN /\ last'.swept = AboveGap(tip)
             /\ files' = files \ UNION {PartitionFiles(start) : start \in AboveGap(tip)}
             /\ last'.probed =
                    AboveGap(tip) \cup (IF gap = {} THEN {} ELSE {SetMax(gap)})
             /\ last'.error = "-"]_vars

\* a sweep deleted a partition, stopped at the missing partition below it
\* and left the partition below the gap on disk
C31_Witness ==
    /\ Swept
    /\ last.inp.remove_fails = {}
    /\ last.swept # {}
    /\ \E gap \in last.probed \ last.swept :
          /\ gap < SetMin(last.swept)
          /\ gap >= BlocksPerFile
          /\ PartitionFiles(gap - BlocksPerFile) \subseteq files

\* ------------------------------------------------------------------ C32
\* the files of this partition that are on disk
OnDisk(fs, start) == fs \cap PartitionFiles(start)

\* C32: a sweep takes a partition for present only when its three files are
\* on disk, and deleting removes all three, so that after a sweep every
\* partition has all of its files or none.
C32_PartitionsWholeOrGone ==
    [][(/\ last'.op \in {"run", "prune_ancient_sidecars"}
        /\ last'.sweep_tip.some) =>
          /\ \A start \in last'.swept : PartitionFiles(start) \subseteq files
          /\ \A start \in DeepTips :
                OnDisk(files', start) \in {{}, PartitionFiles(start)}]_vars

\* a sweep during which the removal of .conf files failed deleted two
\* partitions: one is gone, having had no .conf file, the other is left with
\* its .conf file only
C32_Witness ==
    /\ Swept
    /\ Cardinality(last.swept) = 2
    /\ last.inp.remove_fails = {"conf"}
    /\ \E start \in last.swept : OnDisk(files, start) = {}
    /\ \E start \in last.swept : OnDisk(files, start) = {<<start, "conf">>}

\* ------------------------------------------------------------------ C33
\* the actions whose handler has returned Ok
Returned == IF service.pc = "idle" THEN received ELSE received - 1

\* what the handlers of the first n actions send to the DB service
RECURSIVE MessagesOf(_)
MessagesOf(n) ==
    IF n = 0 THEN << >>
    ELSE LET action == arrived[n]
         IN MessagesOf(n - 1) \o
            (CASE action.op = "LogTransactions" ->
                     <<UpdateTransactionMeta(action.number, n)>>
               [] action.op = "WriteExecutionData" /\ action.blocks # << >> ->
                     <<SaveBlocks(action.blocks, n)>>
               [] OTHER -> << >>)

\* the writers the handler of an action uses
WritersOf(op) ==
    IF op = "LogTransactions" THEN {"Transactions", "Headers", "Sidecars"}
    ELSE {"Receipts"}

\* C33: the DB service has been sent, in order, exactly one
\* UpdateTransactionMeta(block.number, reply) for every LogTransactions that
\* returned Ok and one SaveBlocks(blocks, reply) for every WriteExecutionData
\* with blocks that returned Ok, each with the reply sender of its action; and
\* a message is sent only when every writer its action used is committed.
C33_OneMessagePerSuccessfulAction ==
    /\ [](database_handle = MessagesOf(Returned))
    /\ [][database_handle' # database_handle =>
            /\ replies[received] = "queued"
            /\ replies'[received] = "forwarded"
            /\ \A segment \in WritersOf(arrived[received].op) :
                  /\ static_files[segment] = writers[segment]
                  /\ Len(static_files[segment].rows) >=
                         lengths_before[segment].entries
                  /\ BlockCount(static_files[segment]) >
                         lengths_before[segment].blocks]_vars

\* a LogTransactions and a WriteExecutionData with blocks have returned, the
\* DB service was sent one message for each, and what the two wrote is in
\* the static files
C33_Witness ==
    /\ service.pc = "idle"
    /\ received = 2
    /\ Len(database_handle) = 2
    /\ database_handle[1].op = "UpdateTransactionMeta"
    /\ database_handle[1].sender = 1
    /\ database_handle[2].op = "SaveBlocks"
    /\ database_handle[2].sender = 2
    /\ replies = <<"forwarded", "forwarded">>
    /\ static_files.Sidecars.block_end = Some(database_handle[1].number)
    /\ static_files.Receipts.block_end = Some(0)

\* ------------------------------------------------------------------ C34
\* C34: the handler of a WriteExecutionData with an empty block list returns
\* Ok at once: the step that receives it leaves the static files and the
\* writers as they are, sends nothing to the DB service, and the service is
\* ready for the next action.
C34_EmptyWriteExecutionDataDoesNothing ==
    [][(/\ received' = received + 1
        /\ arrived[received + 1].op = "WriteExecutionData"
        /\ arrived[received + 1].blocks = << >>) =>
          /\ static_files' = static_files
          /\ writers' = writers
          /\ database_handle' = database_handle
          /\ service' = Idle
          /\ service = Idle]_vars

\* a WriteExecutionData with an empty list has returned after a block was
\* logged, and the only message sent is the one of the logged block
C34_Witness ==
    /\ service.pc = "idle"
    /\ received = 2
    /\ arrived[2].op = "WriteExecutionData"
    /\ arrived[2].blocks = << >>
    /\ canonical > executed
    /\ static_files.Receipts = EmptySegment
    /\ Len(database_handle) = 1
    /\ database_handle[1].op = "UpdateTransactionMeta"

\* ------------------------------------------------------------------ C35
\* every receipt position of a batch in block order: the block it belongs to,
\* counted from the first block of the batch, and whether a receipt is there
RECURSIVE ReceiptPositions(_, _)
ReceiptPositions(blocks, current_block) ==
    IF blocks = << >> THEN << >>
    ELSE [i \in 1..Len(Head(blocks).receipts) |->
              [block |-> current_block, present |-> Head(blocks).receipts[i]]]
         \o ReceiptPositions(Tail(blocks), current_block + 1)

\* C35: WriteExecutionData appends to the Receipts segment, after what it
\* holds, the receipts of the batch that are present, the one at position i
\* (counted over all positions of the batch from 0, pruned ones included) at
\* tx number start + i and under its block, start being 0 for an empty segment
\* and the highest receipt tx number + 1 otherwise; the block of the segment
\* ends up at the last block of the batch.
C35_ReceiptsNumberedByPosition ==
    [][(/\ service.pc = "write_execution_data"
        /\ service.step = 0
        /\ service'.step = 1) =>
          LET old == static_files.Receipts.rows
              new == static_files'.Receipts.rows
              blocks == service.action.blocks
              start == IF old = << >> THEN 0 ELSE old[Len(old)].number + 1
              positions == ReceiptPositions(blocks, blocks[1].number)
              present == {i \in 1..Len(positions) : positions[i].present}
              added == SubSeq(new, Len(old) + 1, Len(new))
          IN /\ SubSeq(new, 1, Len(old)) = old
             /\ Len(added) = Cardinality(present)
             /\ Range(added) =
                    {Row(positions[i].block, start + i - 1) : i \in present}
             /\ \A k \in 1..(Len(added) - 1) :
                    added[k].number < added[k + 1].number
             /\ \A k \in 1..Len(blocks) :
                    blocks[k].number = blocks[1].number + k - 1
             /\ static_files'.Receipts.block_end =
                    Some(blocks[1].number + Len(blocks) - 1)]_vars

\* a batch of two blocks was written to a Receipts segment that held
\* receipts: the first receipt of each block was pruned, the segment has a
\* row for the second receipt of the second block and none for its first
C35_Witness ==
    /\ service.pc = "write_execution_data"
    /\ service.step = 1
    /\ lengths_before.Receipts.entries > 0
    /\ Len(service.action.blocks) = 2
    /\ Len(service.action.blocks[2].receipts) = 2
    /\ ~service.action.blocks[2].receipts[1]
    /\ LET rows == static_files.Receipts.rows
           first_tx == first_tx_num(service.action.blocks[2].number)
       IN /\ rows[Len(rows)] = Row(service.action.blocks[2].number, first_tx + 1)
          /\ \A k \in 1..Len(rows) : rows[k].number # first_tx

\* ------------------------------------------------------------------ C36
\* the action whose handler returned last, and the lengths it started from
LastCompleted == completed[Len(completed)]

\* a RemoveBlocksAbove(n) has returned Ok, on static files whose highest
\* block was at least n, and nothing was handled since
RemovedAbove ==
    /\ service.pc = "idle"
    /\ completed # << >>
    /\ LastCompleted.action.op = "RemoveBlocksAbove"
    /\ LastCompleted.before.Headers.blocks - 1 >= LastCompleted.action.block_num

\* the transactions of the blocks lo..hi
TransactionsIn(lo, hi) == first_tx_num(hi + 1) - first_tx_num(lo)

\* C36: after such a RemoveBlocksAbove(n) the highest block of Headers and
\* of Sidecars is n, Transactions and Receipts have lost as many entries as
\* the blocks n+1 .. former highest block have transactions, and no segment
\* holds an entry of a block above n.
C36_RemoveBlocksAboveLeavesBlockN ==
    RemovedAbove =>
        LET n == LastCompleted.action.block_num
            before == LastCompleted.before
            highest == before.Headers.blocks - 1
        IN /\ static_files.Headers.block_end = Some(n)
           /\ static_files.Sidecars.block_end = Some(n)
           /\ \A segment \in {"Transactions", "Receipts"} :
                 before[segment].entries - Len(static_files[segment].rows) =
                     TransactionsIn(n + 1, highest)
           /\ \A segment \in StaticFileSegments :
                 \A r \in Range(static_files[segment].rows) : r.block <= n

\* RemoveBlocksAbove(n) has returned on static files that ended with block
\* n, which has two transactions: Headers still ends with block n and
\* Transactions has lost an entry
C36_Witness ==
    /\ RemovedAbove
    /\ LastCompleted.before.Headers.blocks - 1 = LastCompleted.action.block_num
    /\ block_body_indices[LastCompleted.action.block_num] = 2
    /\ static_files.Headers.block_end = Some(LastCompleted.action.block_num)
    /\ Len(static_files.Transactions.rows) =
           LastCompleted.before.Transactions.entries - 1

\* ------------------------------------------- service and sweep side by side
\* the Sidecars writer of log_transactions opens the partition of the block it
\* appends to
OpenSidecarsPartition ==
    /\ service.pc = "log_transactions"
    /\ service.action.op = "LogTransactions"
    /\ CreateSidecarsPartition(find_fixed_range(service.action.number).start)

\* the static-file service thread and a pruner thread that sweeps at any tip
NextShared ==
    \/ SendLogTransactions
    \/ RecvLogTransactions
    \/ CommitWriter
    \/ SendUpdateTransactionMeta
    \/ SendRemoveBlocksAboveAny
    \/ RecvRemoveBlocksAbove
    \/ Truncate
    \/ FinishRemoveBlocksAbove
    \/ OpenSidecarsPartition
    \/ PruneAncientSidecarsAny

SpecShared == InitWith({Config(1, 0, 1)}) /\ [][NextShared]_vars

\* ------------------------------------------------------------------ C37
InRemoveBlocksAbove ==
    /\ service.action.op = "RemoveBlocksAbove"
    /\ service.pc \in {"remove_blocks_above", "crashed"}

\* the transactions of this block, as LogTransactions wrote them
BodyVisible(number) ==
    TransactionsVisible(LogTransactions(number, block_body_indices[number],
                                        first_tx_num(number)))

\* C37: at every point of a RemoveBlocksAbove action, a crash between two of
\* its truncations included, every block whose header is in the static files
\* has all of its transactions there, and Headers does not end above
\* Transactions.
C37_HeaderHasBodyDuringTruncation ==
    InRemoveBlocksAbove =>
        /\ \A number \in Blocks : HeaderVisible(number) => BodyVisible(number)
        /\ static_files.Headers.block_end.some =>
              /\ static_files.Transactions.block_end.some
              /\ static_files.Headers.block_end.val <=
                     static_files.Transactions.block_end.val

\* a crash after Transactions and before Headers were truncated, block n
\* having one transaction: the header of block n + 1 is there and its
\* transaction is gone
C37_Witness ==
    /\ service.action.op = "RemoveBlocksAbove"
    /\ service.pc = "crashed"
    /\ service.step = 2
    /\ block_body_indices[service.action.block_num] = 1
    /\ service.action.block_num < MaxBlock
    /\ block_body_indices[service.action.block_num + 1] > 0
    /\ BodyVisible(service.action.block_num)
    /\ HeaderVisible(service.action.block_num + 1)
    /\ ~BodyVisible(service.action.block_num + 1)

\* ------------------------------------------------------------------ C38
\* the Sidecars partitions the action the service is in the middle of appends
\* to or truncates
ServiceTouches ==
    IF service.pc = "log_transactions" /\ service.action.op = "LogTransactions"
    THEN {find_fixed_range(service.action.number).start}
    ELSE IF service.pc = "remove_blocks_above"
         THEN {find_fixed_range(b).start :
                  b \in (service.action.block_num + 1)..service.highest_static_file_block}
         ELSE {}

\* the partitions a step deletes from the disk
DeletedByStep == {f[1] : f \in files \ files'}

\* C38: whatever the service is doing when the sweep runs, every partition the
\* sweep deletes lies strictly below every partition the service's action
\* appends to or truncates.
C38_SweepBelowServicePartitions ==
    [][\A d \in DeletedByStep : \A p \in ServiceTouches : d < p]_vars

\* the sweep has just deleted a partition the running truncation reaches
C38_Witness ==
    /\ last.op = "prune_ancient_sidecars"
    /\ service.pc = "remove_blocks_above"
    /\ last.tip >= service.highest_static_file_block
    /\ \E d \in last.swept : d \in ServiceTouches

\* ------------------------------------------------------------------ C39
\* the run returned the error of one of the calls of prune_segments
RunFailed(l) ==
    /\ l.op = "run"
    /\ l.inp.provider_error = "-"
    /\ l.error # "-"

\* C39: a run in which a segment's prune_target_block, get_prune_checkpoint,
\* prune or save_checkpoint returns an error returns that error, has emitted
\* Started and no Finished, has not swept the ancient sidecars, and leaves
\* previous_tip_block_number as it was, so that is_pruning_needed answers
\* every tip as before the run.
C39_FailedRunLeavesPrunerAsBefore ==
    [][RunFailed(last') =>
          /\ last'.error = last'.inp.error.call
          /\ last'.error \in {"prune_target_block", "get_prune_checkpoint",
                               "prune", "save_checkpoint"}
          /\ last'.events =
                 <<Started(adjust_tip_block_number_to_finished_exex_height(
                               last'.tip).val)>>
          /\ last'.sweep_tip = None
          /\ last'.swept = {}
          /\ files' = files
          /\ oldest_sidecars_height' = oldest_sidecars_height
          /\ previous_tip_block_number' = previous_tip_block_number
          /\ \A tip \in Tips : is_pruning_needed(tip)' = is_pruning_needed(tip)]_vars

\* the checkpoint save of a segment failed in a run at a tip other than the
\* recorded one, with a partition on disk that the sweep of this tip deletes
C39_Witness ==
    /\ RunFailed(last)
    /\ last.error = "save_checkpoint"
    /\ last.calls # << >>
    /\ previous_tip_block_number.some
    /\ previous_tip_block_number.val # last.tip
    /\ is_pruning_needed(last.tip)
    /\ prune_ancient_sidecars(files, oldest_sidecars_height, last.tip, {}).deleted # {}

\* ------------------------------------------------------------------ C40
\* the calls of segment.prune of the run whose checkpoint save did not fail
SucceededCalls(l) ==
    {k \in 1..Len(l.calls) :
        ~(l.error = "save_checkpoint" /\ l.calls[k].index = l.inp.error.at)}

\* what the calls of the run deleted from a segment's table
DeletedByCalls(l, id) ==
    UNION {l.calls[k].deleted :
              k \in {j \in 1..Len(l.calls) : segments[l.calls[j].index].segment = id}}

\* C40: Pruner::run commits its provider whatever run_with_provider returned:
\* after a run in which a later segment failed, the database holds the
\* deletions of the segments pruned before it and, for each of them, the
\* checkpoint its prune returned with those deletions; when the commit fails,
\* run returns the commit error, not the result of run_with_provider.
C40_RunCommitsWhateverTheResult ==
    [][(last'.op = "run" /\ last'.inp.provider_error # "provider_rw") =>
          IF last'.inp.provider_error = "commit"
          THEN /\ last'.error = "commit"
               /\ last'.output = EmptyOutput
          ELSE /\ last'.error \in {"-", last'.inp.error.call}
               /\ \A id \in PruneSegments :
                      table'[id] = table[id] \ DeletedByCalls(last', id)
               /\ \A k \in SucceededCalls(last') :
                      LET call == last'.calls[k]
                          segment == segments[call.index]
                      IN checkpoints'[segment.segment] =
                            IF call.checkpoint.some
                            THEN as_prune_checkpoint(call.checkpoint, segment.mode.val)
                            ELSE checkpoints[segment.segment]]_vars

\* a later segment failed after an earlier segment of the same run had deleted
\* entries and returned a checkpoint, and both are in the database
C40_Witness ==
    /\ RunFailed(last)
    /\ \E k \in 1..Len(last.calls) :
          LET call == last.calls[k]
              id == segments[call.index].segment
          IN /\ call.index < last.inp.error.at
             /\ call.deleted # {}
             /\ call.checkpoint.some
             /\ call.deleted \cap table[id] = {}
             /\ checkpoints[id] =
                    as_prune_checkpoint(call.checkpoint, segments[call.index].mode.val)

====
